---- MODULE Spec2Model ----
(***************************************************************************)
(* A model of the RV32 hart of rust-riscv-emu: SingleThreadUserHart        *)
(* (src/src/hart.rs), the memory bus stack (src/src/memory.rs), the raw    *)
(* instruction extractors and the RV32 decoder (src/src/raw_instruction.rs,*)
(* src/src/instruction/instruction_32.rs) and the executor step_rv32       *)
(* (src/src/exec/exec_32.rs).                                              *)
(*                                                                         *)
(* Representation of 32-bit words.  TLC integers are 32-bit signed, so a   *)
(* u32 bit pattern is carried as the i32 with the same bits: 0xFFFFFFFF is *)
(* -1 and 0x80000000 is MinI32.  Rust's transmute between u32 and i32      *)
(* (Int::to_signed / from_signed) is therefore the identity on the         *)
(* representation, and every unsigned operation (comparison, division,     *)
(* logical shift) is written out on that representation without ever       *)
(* leaving the 32-bit range.                                               *)
(***************************************************************************)
EXTENDS Integers, Sequences, FiniteSets, TLC

VARIABLES pc, int_regs, float_regs, csrs, mem, status, last, steps

vars == <<pc, int_regs, float_regs, csrs, mem, status, last, steps>>

-----------------------------------------------------------------------------
(* 32-bit words                                                            *)

MaxI32 == 2147483647
MinI32 == -MaxI32 - 1

\* The two 16-bit halves of a word, each in 0..65535.
Lo16(w) == w % 65536
Hi16(w) == (w \div 65536) % 65536
W(hi, lo) == (IF hi >= 32768 THEN hi - 65536 ELSE hi) * 65536 + lo

\* u32 as u8 (and u16): truncation to the low bits.
as_u8(w) == w % 256
as_u16(w) == w % 65536

\* a.wrapping_add(b) on 32 bits.
wrapping_add(a, b) ==
    IF a >= 0 /\ b >= 0 /\ a > MaxI32 - b THEN ((a + MinI32) + b) + MinI32
    ELSE IF a < 0 /\ b < 0 /\ a < MinI32 - b THEN (((a - MinI32) + b) + MaxI32) + 1
    ELSE a + b

\* a.wrapping_sub(b) on 32 bits.
wrapping_sub(a, b) ==
    IF b = MinI32 THEN wrapping_add(a, MinI32) ELSE wrapping_add(a, -b)

\* Unsigned comparison of two words.
LtU(a, b) == IF (a < 0) = (b < 0) THEN a < b ELSE b < 0

\* a & b of two naturals below 2^n, bit by bit.
RECURSIVE BitAnd(_, _, _)
BitAnd(a, b, n) ==
    IF n = 0 THEN 0
    ELSE (a % 2) * (b % 2) + 2 * BitAnd(a \div 2, b \div 2, n - 1)

\* a & b for every pair of bytes, as a table.
AndByte == [a \in 0..255 |-> ([b \in 0..255 |-> BitAnd(a, b, 8)] @@ <<>>)] @@ <<>>

\* a & b on 32 bits, byte by byte; a | b and a ^ b from it:
\* a | b = a + b - (a & b) and a ^ b = a + b - 2 * (a & b) on every byte.
And16(a, b) ==
    AndByte[a \div 256][b \div 256] * 256 + AndByte[a % 256][b % 256]
And32(a, b) == W(And16(Hi16(a), Hi16(b)), And16(Lo16(a), Lo16(b)))
Or32(a, b) ==
    W((Hi16(a) + Hi16(b)) - And16(Hi16(a), Hi16(b)),
               (Lo16(a) + Lo16(b)) - And16(Lo16(a), Lo16(b)))
Xor32(a, b) ==
    W((Hi16(a) + Hi16(b)) - 2 * And16(Hi16(a), Hi16(b)),
               (Lo16(a) + Lo16(b)) - 2 * And16(Lo16(a), Lo16(b)))

\* v << n on 32 bits, 0 <= n <= 31: the bits shifted out are lost.
Shl32(v, n) ==
    IF n = 0 THEN v
    ELSE IF n = 31 THEN (IF v % 2 = 1 THEN MinI32 ELSE 0)
    ELSE LET kept == v % 2^(31 - n)
             top == (v \div 2^(31 - n)) % 2
         IN  (IF top = 1 THEN MinI32 ELSE 0) + kept * 2^(n)

\* Arithmetic v >> n of an i32, 0 <= n <= 31.
Sra32(v, n) ==
    IF n = 31 THEN (IF v < 0 THEN -1 ELSE 0) ELSE v \div 2^(n)

\* Logical v >> n of a u32, 0 <= n <= 31.
Srl32(v, n) ==
    IF n = 0 THEN v
    ELSE IF n = 31 THEN (IF v < 0 THEN 1 ELSE 0)
    ELSE LET x == v \div 2^(n)
         IN  IF v >= 0 THEN x ELSE (x + (MaxI32 \div 2^(n - 1))) + 1

\* Bits [lo + n - 1 : lo] of a word, as a natural below 2^n (n <= 30).
Bits(w, lo, n) == Srl32(w, lo) % 2^(n)

-----------------------------------------------------------------------------
(* RawInstruction (raw_instruction.rs)                                     *)


\* A sign_extend that keeps the value as it is.
sign_extend_none(v, width) == v

\* sign_extend(v, width): shift left, then arithmetic shift right.
sign_extend(v, width) ==
    IF width = 32 THEN v
    ELSE LET shift == 32 - width
             shifted == Shl32(v, shift)
         IN  Sra32(shifted, shift)

\* An instruction_length without the test for the reserved prefix.
instruction_length_unreserved(low_parcel) ==
    IF BitAnd(low_parcel, \b11, 16) # \b11 THEN 2
    ELSE IF BitAnd(low_parcel, \b11111, 16) # \b11111 THEN 4
    ELSE IF BitAnd(low_parcel, \b111111, 16) = \b011111 THEN 6
    ELSE IF BitAnd(low_parcel, \b1111111, 16) = \b0111111 THEN 8
    ELSE 10 + BitAnd(low_parcel \div 4096, \b111, 16) * 2

\* instruction_length(low_parcel) for a 16-bit low parcel.
instruction_length(low_parcel) ==
    IF BitAnd(low_parcel, \b11, 16) # \b11 THEN 2
    ELSE IF BitAnd(low_parcel, \b11111, 16) # \b11111 THEN 4
    ELSE IF BitAnd(low_parcel, \b111111, 16) = \b011111 THEN 6
    ELSE IF BitAnd(low_parcel, \b1111111, 16) = \b0111111 THEN 8
    ELSE IF /\ BitAnd(low_parcel, \b1111111, 16) = \b1111111
            /\ BitAnd(low_parcel, \b111000000000000, 16) # \b111000000000000
         THEN LET n == BitAnd(low_parcel \div 4096, \b111, 16)
              IN  10 + n * 2
    ELSE 0

raw_length(raw) == instruction_length(as_u16(raw))

raw_opcode(raw) ==
    CASE raw_length(raw) = 2 -> as_u8(And32(raw, \b0000000000000011))
      [] raw_length(raw) = 4 -> as_u8(And32(raw, \b0000000001111111))
      [] OTHER -> as_u8(raw)

raw_matches(raw, mask, want) == And32(raw, mask) = want

\* enum Opcode: the top-level opcodes of full-length operations.
Opcode == [
    Amo |-> \b0101111, Auipc |-> \b0010111, Branch |-> \b1100011, Jal |-> \b1101111,
    Jalr |-> \b1100111, Load |-> \b0000011, LoadFp |-> \b0000111, Lui |-> \b0110111,
    Madd |-> \b1000011, MiscMem |-> \b0001111, Msub |-> \b1000111, Nmadd |-> \b1001111,
    Nmsub |-> \b1001011, Op |-> \b0110011, Op32 |-> \b0111011, OpFp |-> \b1010011,
    OpImm |-> \b0010011, OpImm32 |-> \b0011011, Store |-> \b0100011, StoreFp |-> \b0100111,
    System |-> \b1110011 ]

\* The field extractors of RawInstruction (aq .. zimm), one entry each: the
\* statements `raw |= (self.0 & mask) >> n` (or << n) in source order, and what
\* the function returns: the bits as they are ("raw"), a register of that
\* number ("register"), sign_extend(raw, width), or `(self.0 & mask) != 0`.
Extractors == [
    aq |-> [terms |-> <<<<W(\b0000010000000000, \b0000000000000000), "", 0>>>>, ret |-> "bool", width |-> 32],
    cfrd |-> [terms |-> <<
        <<W(\b0000000000000000, \b0000111110000000), ">>", 7>>>>,
        ret |-> "register", width |-> 32],
    cfrdq |-> [terms |-> <<
        <<W(\b0000000000000000, \b0000000000011100), ">>", 2>>>>,
        ret |-> "register", width |-> 32],
    cfrs2 |-> [terms |-> <<
        <<W(\b0000000000000000, \b0000000001111100), ">>", 2>>>>,
        ret |-> "register", width |-> 32],
    cfrs2q |-> [terms |-> <<
        <<W(\b0000000000000000, \b0000000000011100), ">>", 2>>>>,
        ret |-> "register", width |-> 32],
    cimm16sp |-> [terms |-> <<
        <<W(\b0000000000000000, \b0001000000000000), ">>", 3>>,
        <<W(\b0000000000000000, \b0000000001000000), ">>", 2>>,
        <<W(\b0000000000000000, \b0000000000100000), "<<", 1>>,
        <<W(\b0000000000000000, \b0000000000011000), "<<", 4>>,
        <<W(\b0000000000000000, \b0000000000000100), "<<", 3>>>>,
        ret |-> "sign_extend", width |-> 10],
    cimm4spn |-> [terms |-> <<
        <<W(\b0000000000000000, \b0001100000000000), ">>", 7>>,
        <<W(\b0000000000000000, \b0000011110000000), ">>", 1>>,
        <<W(\b0000000000000000, \b0000000001000000), ">>", 4>>,
        <<W(\b0000000000000000, \b0000000000100000), ">>", 2>>>>,
        ret |-> "raw", width |-> 32],
    cimmb |-> [terms |-> <<
        <<W(\b0000000000000000, \b0001000000000000), ">>", 4>>,
        <<W(\b0000000000000000, \b0000110000000000), ">>", 7>>,
        <<W(\b0000000000000000, \b0000000001100000), "<<", 1>>,
        <<W(\b0000000000000000, \b0000000000011000), ">>", 2>>,
        <<W(\b0000000000000000, \b0000000000000100), "<<", 3>>>>,
        ret |-> "sign_extend", width |-> 9],
    cimmd |-> [terms |-> <<
        <<W(\b0000000000000000, \b0001110000000000), ">>", 7>>,
        <<W(\b0000000000000000, \b0000000001100000), "<<", 1>>>>,
        ret |-> "raw", width |-> 32],
    cimmi |-> [terms |-> <<
        <<W(\b0000000000000000, \b0001000000000000), ">>", 7>>,
        <<W(\b0000000000000000, \b0000000001111100), ">>", 2>>>>,
        ret |-> "sign_extend", width |-> 6],
    cimmj |-> [terms |-> <<
        <<W(\b0000000000000000, \b0001000000000000), ">>", 1>>,
        <<W(\b0000000000000000, \b0000100000000000), ">>", 7>>,
        <<W(\b0000000000000000, \b0000011000000000), ">>", 1>>,
        <<W(\b0000000000000000, \b0000000100000000), "<<", 2>>,
        <<W(\b0000000000000000, \b0000000010000000), ">>", 1>>,
        <<W(\b0000000000000000, \b0000000001000000), "<<", 1>>,
        <<W(\b0000000000000000, \b0000000000111000), ">>", 2>>,
        <<W(\b0000000000000000, \b0000000000000100), "<<", 3>>>>,
        ret |-> "sign_extend", width |-> 12],
    cimmldsp |-> [terms |-> <<
        <<W(\b0000000000000000, \b0001000000000000), ">>", 7>>,
        <<W(\b0000000000000000, \b0000000001100000), ">>", 2>>,
        <<W(\b0000000000000000, \b0000000000011100), "<<", 4>>>>,
        ret |-> "raw", width |-> 32],
    cimmlwsp |-> [terms |-> <<
        <<W(\b0000000000000000, \b0001000000000000), ">>", 7>>,
        <<W(\b0000000000000000, \b0000000001110000), ">>", 2>>,
        <<W(\b0000000000000000, \b0000000000001100), "<<", 4>>>>,
        ret |-> "raw", width |-> 32],
    cimmsdsp |-> [terms |-> <<
        <<W(\b0000000000000000, \b0001110000000000), ">>", 7>>,
        <<W(\b0000000000000000, \b0000001110000000), ">>", 1>>>>,
        ret |-> "raw", width |-> 32],
    cimmsh5 |-> [terms |-> <<
        <<W(\b0000000000000000, \b0000000001111100), ">>", 2>>>>,
        ret |-> "raw", width |-> 32],
    cimmswsp |-> [terms |-> <<
        <<W(\b0000000000000000, \b0001111000000000), ">>", 7>>,
        <<W(\b0000000000000000, \b0000000110000000), ">>", 1>>>>,
        ret |-> "raw", width |-> 32],
    cimmui |-> [terms |-> <<
        <<W(\b0000000000000000, \b0001000000000000), "<<", 5>>,
        <<W(\b0000000000000000, \b0000000001111100), "<<", 10>>>>,
        ret |-> "sign_extend", width |-> 18],
    cimmw |-> [terms |-> <<
        <<W(\b0000000000000000, \b0001110000000000), ">>", 7>>,
        <<W(\b0000000000000000, \b0000000001000000), ">>", 4>>,
        <<W(\b0000000000000000, \b0000000000100000), "<<", 1>>>>,
        ret |-> "raw", width |-> 32],
    cnzimmi |-> [terms |-> <<
        <<W(\b0000000000000000, \b0001000000000000), ">>", 7>>,
        <<W(\b0000000000000000, \b0000000001111100), ">>", 2>>>>,
        ret |-> "sign_extend", width |-> 6],
    crd |-> [terms |-> <<
        <<W(\b0000000000000000, \b0000111110000000), ">>", 7>>>>,
        ret |-> "register", width |-> 32],
    crd0 |-> [terms |-> <<
        <<W(\b0000000000000000, \b0001000000000000), ">>", 12>>>>,
        ret |-> "register", width |-> 32],
    crdq |-> [terms |-> <<
        <<W(\b0000000000000000, \b0000000000011100), ">>", 2>>>>,
        ret |-> "register", width |-> 32],
    crs1 |-> [terms |-> <<
        <<W(\b0000000000000000, \b0000111110000000), ">>", 7>>>>,
        ret |-> "register", width |-> 32],
    crs1q |-> [terms |-> <<
        <<W(\b0000000000000000, \b0000001110000000), ">>", 7>>>>,
        ret |-> "register", width |-> 32],
    crs1rd |-> [terms |-> <<
        <<W(\b0000000000000000, \b0000111110000000), ">>", 7>>>>,
        ret |-> "register", width |-> 32],
    crs1rdq |-> [terms |-> <<
        <<W(\b0000000000000000, \b0000001110000000), ">>", 7>>>>,
        ret |-> "register", width |-> 32],
    crs2 |-> [terms |-> <<
        <<W(\b0000000000000000, \b0000000001111100), ">>", 2>>>>,
        ret |-> "register", width |-> 32],
    crs2q |-> [terms |-> <<
        <<W(\b0000000000000000, \b0000000000011100), ">>", 2>>>>,
        ret |-> "register", width |-> 32],
    csr12 |-> [terms |-> <<
        <<W(\b1111111111110000, \b0000000000000000), ">>", 20>>>>,
        ret |-> "raw", width |-> 32],
    frd |-> [terms |-> <<
        <<W(\b0000000000000000, \b0000111110000000), ">>", 7>>>>,
        ret |-> "register", width |-> 32],
    frs1 |-> [terms |-> <<
        <<W(\b0000000000001111, \b1000000000000000), ">>", 15>>>>,
        ret |-> "register", width |-> 32],
    frs2 |-> [terms |-> <<
        <<W(\b0000000111110000, \b0000000000000000), ">>", 20>>>>,
        ret |-> "register", width |-> 32],
    frs3 |-> [terms |-> <<
        <<W(\b1111100000000000, \b0000000000000000), ">>", 27>>>>,
        ret |-> "register", width |-> 32],
    imm12 |-> [terms |-> <<
        <<W(\b1111111111110000, \b0000000000000000), ">>", 20>>>>,
        ret |-> "sign_extend", width |-> 12],
    imm20 |-> [terms |-> <<
        <<W(\b1111111111111111, \b1111000000000000), "", 0>>>>,
        ret |-> "sign_extend", width |-> 32],
    jimm20 |-> [terms |-> <<
        <<W(\b1000000000000000, \b0000000000000000), ">>", 11>>,
        <<W(\b0111111111100000, \b0000000000000000), ">>", 20>>,
        <<W(\b0000000000010000, \b0000000000000000), ">>", 9>>,
        <<W(\b0000000000001111, \b1111000000000000), "", 0>>>>,
        ret |-> "sign_extend", width |-> 21],
    oimm12 |-> [terms |-> <<
        <<W(\b1111111111110000, \b0000000000000000), ">>", 20>>>>,
        ret |-> "sign_extend", width |-> 12],
    oimm20 |-> [terms |-> <<
        <<W(\b1111111111111111, \b1111000000000000), "", 0>>>>,
        ret |-> "sign_extend", width |-> 32],
    pred |-> [terms |-> <<<<W(\b0000111100000000, \b0000000000000000), "", 0>>>>, ret |-> "bool", width |-> 32],
    rd |-> [terms |-> <<
        <<W(\b0000000000000000, \b0000111110000000), ">>", 7>>>>,
        ret |-> "register", width |-> 32],
    rl |-> [terms |-> <<<<W(\b0000001000000000, \b0000000000000000), "", 0>>>>, ret |-> "bool", width |-> 32],
    rm |-> [terms |-> <<<<W(\b0000000000000000, \b0111000000000000), "", 0>>>>, ret |-> "bool", width |-> 32],
    rs1 |-> [terms |-> <<
        <<W(\b0000000000001111, \b1000000000000000), ">>", 15>>>>,
        ret |-> "register", width |-> 32],
    rs2 |-> [terms |-> <<
        <<W(\b0000000111110000, \b0000000000000000), ">>", 20>>>>,
        ret |-> "register", width |-> 32],
    sbimm12 |-> [terms |-> <<
        <<W(\b1000000000000000, \b0000000000000000), ">>", 19>>,
        <<W(\b0111111000000000, \b0000000000000000), ">>", 20>>,
        <<W(\b0000000000000000, \b0000111100000000), ">>", 7>>,
        <<W(\b0000000000000000, \b0000000010000000), "<<", 4>>>>,
        ret |-> "sign_extend", width |-> 13],
    shamt5 |-> [terms |-> <<
        <<W(\b0000000111110000, \b0000000000000000), ">>", 20>>>>,
        ret |-> "raw", width |-> 32],
    simm12 |-> [terms |-> <<
        <<W(\b1111111000000000, \b0000000000000000), ">>", 20>>,
        <<W(\b0000000000000000, \b0000111110000000), ">>", 7>>>>,
        ret |-> "sign_extend", width |-> 12],
    succ |-> [terms |-> <<<<W(\b0000000011110000, \b0000000000000000), "", 0>>>>, ret |-> "bool", width |-> 32],
    zimm |-> [terms |-> <<
        <<W(\b0000000000001111, \b1000000000000000), ">>", 15>>>>,
        ret |-> "raw", width |-> 32]
]

\* The value of `raw` after the first n fill statements.
RECURSIVE Fill(_, _, _)
Fill(raw, terms, n) ==
    IF n = 0 THEN 0
    ELSE LET masked == And32(raw, terms[n][1])
             moved == CASE terms[n][2] = ">>" -> Srl32(masked, terms[n][3])
                        [] terms[n][2] = "<<" -> Shl32(masked, terms[n][3])
                        [] OTHER -> masked
         IN  Or32(Fill(raw, terms, n - 1), moved)

\* raw.<name>() for an extractor of the table.
extract(raw, name) ==
    LET x == Extractors[name]
    IN  CASE x.ret = "bool" -> And32(raw, x.terms[1][1]) # 0
          [] x.ret = "sign_extend" -> sign_extend(Fill(raw, x.terms, Len(x.terms)), x.width)
          [] OTHER -> Fill(raw, x.terms, Len(x.terms))

-----------------------------------------------------------------------------
(* OperationRV32::decode_from_raw (instruction/instruction_32.rs)          *)

\* The (mask, pattern) entries of decode_from_raw in source order, each with the
\* opcode family whose branch tests it ("Compressed" is the final else branch),
\* the variant it builds and, for every field of the variant, the extractor
\* that fills it.
DecodeTable == <<
    [fam |-> "Amo", mask |-> W(\b1111100000000000, \b0111000001111111), want |-> W(\b0000000000000000, \b0010000000101111),
     variant |-> "AmoaddW", fields |-> <<<<"rd", "rd">>, <<"rs1", "rs1">>, <<"rs2", "rs2">>, <<"aq", "aq">>, <<"rl", "rl">>>>],
    [fam |-> "Amo", mask |-> W(\b1111100000000000, \b0111000001111111), want |-> W(\b0110000000000000, \b0010000000101111),
     variant |-> "AmoandW", fields |-> <<<<"rd", "rd">>, <<"rs1", "rs1">>, <<"rs2", "rs2">>, <<"aq", "aq">>, <<"rl", "rl">>>>],
    [fam |-> "Amo", mask |-> W(\b1111100000000000, \b0111000001111111), want |-> W(\b1010000000000000, \b0010000000101111),
     variant |-> "AmomaxW", fields |-> <<<<"rd", "rd">>, <<"rs1", "rs1">>, <<"rs2", "rs2">>, <<"aq", "aq">>, <<"rl", "rl">>>>],
    [fam |-> "Amo", mask |-> W(\b1111100000000000, \b0111000001111111), want |-> W(\b1110000000000000, \b0010000000101111),
     variant |-> "AmomaxuW", fields |-> <<<<"rd", "rd">>, <<"rs1", "rs1">>, <<"rs2", "rs2">>, <<"aq", "aq">>, <<"rl", "rl">>>>],
    [fam |-> "Amo", mask |-> W(\b1111100000000000, \b0111000001111111), want |-> W(\b1000000000000000, \b0010000000101111),
     variant |-> "AmominW", fields |-> <<<<"rd", "rd">>, <<"rs1", "rs1">>, <<"rs2", "rs2">>, <<"aq", "aq">>, <<"rl", "rl">>>>],
    [fam |-> "Amo", mask |-> W(\b1111100000000000, \b0111000001111111), want |-> W(\b1100000000000000, \b0010000000101111),
     variant |-> "AmominuW", fields |-> <<<<"rd", "rd">>, <<"rs1", "rs1">>, <<"rs2", "rs2">>, <<"aq", "aq">>, <<"rl", "rl">>>>],
    [fam |-> "Amo", mask |-> W(\b1111100000000000, \b0111000001111111), want |-> W(\b0100000000000000, \b0010000000101111),
     variant |-> "AmoorW", fields |-> <<<<"rd", "rd">>, <<"rs1", "rs1">>, <<"rs2", "rs2">>, <<"aq", "aq">>, <<"rl", "rl">>>>],
    [fam |-> "Amo", mask |-> W(\b1111100000000000, \b0111000001111111), want |-> W(\b0000100000000000, \b0010000000101111),
     variant |-> "AmoswapW", fields |-> <<<<"rd", "rd">>, <<"rs1", "rs1">>, <<"rs2", "rs2">>, <<"aq", "aq">>, <<"rl", "rl">>>>],
    [fam |-> "Amo", mask |-> W(\b1111100000000000, \b0111000001111111), want |-> W(\b0010000000000000, \b0010000000101111),
     variant |-> "AmoxorW", fields |-> <<<<"rd", "rd">>, <<"rs1", "rs1">>, <<"rs2", "rs2">>, <<"aq", "aq">>, <<"rl", "rl">>>>],
    [fam |-> "Amo", mask |-> W(\b1111100111110000, \b0111000001111111), want |-> W(\b0001000000000000, \b0010000000101111),
     variant |-> "LrW", fields |-> <<<<"rd", "rd">>, <<"rs1", "rs1">>, <<"aq", "aq">>, <<"rl", "rl">>>>],
    [fam |-> "Amo", mask |-> W(\b1111100000000000, \b0111000001111111), want |-> W(\b0001100000000000, \b0010000000101111),
     variant |-> "ScW", fields |-> <<<<"rd", "rd">>, <<"rs1", "rs1">>, <<"rs2", "rs2">>, <<"aq", "aq">>, <<"rl", "rl">>>>],
    [fam |-> "Auipc", mask |-> W(\b0000000000000000, \b0000000001111111), want |-> W(\b0000000000000000, \b0000000000010111),
     variant |-> "Auipc", fields |-> <<<<"rd", "rd">>, <<"simm", "oimm20">>>>],
    [fam |-> "Branch", mask |-> W(\b0000000000000000, \b0111000001111111), want |-> W(\b0000000000000000, \b0000000001100011),
     variant |-> "Beq", fields |-> <<<<"rs1", "rs1">>, <<"rs2", "rs2">>, <<"simm", "sbimm12">>>>],
    [fam |-> "Branch", mask |-> W(\b0000000000000000, \b0111000001111111), want |-> W(\b0000000000000000, \b0101000001100011),
     variant |-> "Bge", fields |-> <<<<"rs1", "rs1">>, <<"rs2", "rs2">>, <<"simm", "sbimm12">>>>],
    [fam |-> "Branch", mask |-> W(\b0000000000000000, \b0111000001111111), want |-> W(\b0000000000000000, \b0111000001100011),
     variant |-> "Bgeu", fields |-> <<<<"rs1", "rs1">>, <<"rs2", "rs2">>, <<"simm", "sbimm12">>>>],
    [fam |-> "Branch", mask |-> W(\b0000000000000000, \b0111000001111111), want |-> W(\b0000000000000000, \b0100000001100011),
     variant |-> "Blt", fields |-> <<<<"rs1", "rs1">>, <<"rs2", "rs2">>, <<"simm", "sbimm12">>>>],
    [fam |-> "Branch", mask |-> W(\b0000000000000000, \b0111000001111111), want |-> W(\b0000000000000000, \b0110000001100011),
     variant |-> "Bltu", fields |-> <<<<"rs1", "rs1">>, <<"rs2", "rs2">>, <<"simm", "sbimm12">>>>],
    [fam |-> "Branch", mask |-> W(\b0000000000000000, \b0111000001111111), want |-> W(\b0000000000000000, \b0001000001100011),
     variant |-> "Bne", fields |-> <<<<"rs1", "rs1">>, <<"rs2", "rs2">>, <<"simm", "sbimm12">>>>],
    [fam |-> "Jal", mask |-> W(\b0000000000000000, \b0000000001111111), want |-> W(\b0000000000000000, \b0000000001101111),
     variant |-> "Jal", fields |-> <<<<"rd", "rd">>, <<"simm", "jimm20">>>>],
    [fam |-> "Jalr", mask |-> W(\b0000000000000000, \b0111000001111111), want |-> W(\b0000000000000000, \b0000000001100111),
     variant |-> "Jalr", fields |-> <<<<"rd", "rd">>, <<"rs1", "rs1">>, <<"simm", "imm12">>>>],
    [fam |-> "Load", mask |-> W(\b0000000000000000, \b0111000001111111), want |-> W(\b0000000000000000, \b0000000000000011),
     variant |-> "Lb", fields |-> <<<<"rd", "rd">>, <<"rs1", "rs1">>, <<"simm", "oimm12">>>>],
    [fam |-> "Load", mask |-> W(\b0000000000000000, \b0111000001111111), want |-> W(\b0000000000000000, \b0100000000000011),
     variant |-> "Lbu", fields |-> <<<<"rd", "rd">>, <<"rs1", "rs1">>, <<"simm", "oimm12">>>>],
    [fam |-> "Load", mask |-> W(\b0000000000000000, \b0111000001111111), want |-> W(\b0000000000000000, \b0001000000000011),
     variant |-> "Lh", fields |-> <<<<"rd", "rd">>, <<"rs1", "rs1">>, <<"simm", "oimm12">>>>],
    [fam |-> "Load", mask |-> W(\b0000000000000000, \b0111000001111111), want |-> W(\b0000000000000000, \b0101000000000011),
     variant |-> "Lhu", fields |-> <<<<"rd", "rd">>, <<"rs1", "rs1">>, <<"simm", "oimm12">>>>],
    [fam |-> "Load", mask |-> W(\b0000000000000000, \b0111000001111111), want |-> W(\b0000000000000000, \b0010000000000011),
     variant |-> "Lw", fields |-> <<<<"rd", "rd">>, <<"rs1", "rs1">>, <<"simm", "oimm12">>>>],
    [fam |-> "LoadFp", mask |-> W(\b0000000000000000, \b0111000001111111), want |-> W(\b0000000000000000, \b0011000000000111),
     variant |-> "Fld", fields |-> <<<<"frd", "frd">>, <<"rs1", "rs1">>, <<"simm", "oimm12">>>>],
    [fam |-> "LoadFp", mask |-> W(\b0000000000000000, \b0111000001111111), want |-> W(\b0000000000000000, \b0100000000000111),
     variant |-> "Flq", fields |-> <<<<"frd", "frd">>, <<"rs1", "rs1">>, <<"simm", "oimm12">>>>],
    [fam |-> "LoadFp", mask |-> W(\b0000000000000000, \b0111000001111111), want |-> W(\b0000000000000000, \b0010000000000111),
     variant |-> "Flw", fields |-> <<<<"frd", "frd">>, <<"rs1", "rs1">>, <<"simm", "oimm12">>>>],
    [fam |-> "Lui", mask |-> W(\b0000000000000000, \b0000000001111111), want |-> W(\b0000000000000000, \b0000000000110111),
     variant |-> "Lui", fields |-> <<<<"rd", "rd">>, <<"simm", "imm20">>>>],
    [fam |-> "Madd", mask |-> W(\b0000011000000000, \b0000000001111111), want |-> W(\b0000001000000000, \b0000000001000011),
     variant |-> "FmaddD", fields |-> <<<<"frd", "frd">>, <<"frs1", "frs1">>, <<"frs2", "frs2">>, <<"frs3", "frs3">>, <<"rm", "rm">>>>],
    [fam |-> "Madd", mask |-> W(\b0000011000000000, \b0000000001111111), want |-> W(\b0000011000000000, \b0000000001000011),
     variant |-> "FmaddQ", fields |-> <<<<"frd", "frd">>, <<"frs1", "frs1">>, <<"frs2", "frs2">>, <<"frs3", "frs3">>, <<"rm", "rm">>>>],
    [fam |-> "Madd", mask |-> W(\b0000011000000000, \b0000000001111111), want |-> W(\b0000000000000000, \b0000000001000011),
     variant |-> "FmaddS", fields |-> <<<<"frd", "frd">>, <<"frs1", "frs1">>, <<"frs2", "frs2">>, <<"frs3", "frs3">>, <<"rm", "rm">>>>],
    [fam |-> "MiscMem", mask |-> W(\b0000000000000000, \b0111000001111111), want |-> W(\b0000000000000000, \b0000000000001111),
     variant |-> "Fence", fields |-> <<<<"pred", "pred">>, <<"succ", "succ">>>>],
    [fam |-> "MiscMem", mask |-> W(\b0000000000000000, \b0111000001111111), want |-> W(\b0000000000000000, \b0001000000001111),
     variant |-> "FenceI", fields |-> <<>>],
    [fam |-> "Msub", mask |-> W(\b0000011000000000, \b0000000001111111), want |-> W(\b0000001000000000, \b0000000001000111),
     variant |-> "FmsubD", fields |-> <<<<"frd", "frd">>, <<"frs1", "frs1">>, <<"frs2", "frs2">>, <<"frs3", "frs3">>, <<"rm", "rm">>>>],
    [fam |-> "Msub", mask |-> W(\b0000011000000000, \b0000000001111111), want |-> W(\b0000011000000000, \b0000000001000111),
     variant |-> "FmsubQ", fields |-> <<<<"frd", "frd">>, <<"frs1", "frs1">>, <<"frs2", "frs2">>, <<"frs3", "frs3">>, <<"rm", "rm">>>>],
    [fam |-> "Msub", mask |-> W(\b0000011000000000, \b0000000001111111), want |-> W(\b0000000000000000, \b0000000001000111),
     variant |-> "FmsubS", fields |-> <<<<"frd", "frd">>, <<"frs1", "frs1">>, <<"frs2", "frs2">>, <<"frs3", "frs3">>, <<"rm", "rm">>>>],
    [fam |-> "Nmadd", mask |-> W(\b0000011000000000, \b0000000001111111), want |-> W(\b0000001000000000, \b0000000001001111),
     variant |-> "FnmaddD", fields |-> <<<<"frd", "frd">>, <<"frs1", "frs1">>, <<"frs2", "frs2">>, <<"frs3", "frs3">>, <<"rm", "rm">>>>],
    [fam |-> "Nmadd", mask |-> W(\b0000011000000000, \b0000000001111111), want |-> W(\b0000011000000000, \b0000000001001111),
     variant |-> "FnmaddQ", fields |-> <<<<"frd", "frd">>, <<"frs1", "frs1">>, <<"frs2", "frs2">>, <<"frs3", "frs3">>, <<"rm", "rm">>>>],
    [fam |-> "Nmadd", mask |-> W(\b0000011000000000, \b0000000001111111), want |-> W(\b0000000000000000, \b0000000001001111),
     variant |-> "FnmaddS", fields |-> <<<<"frd", "frd">>, <<"frs1", "frs1">>, <<"frs2", "frs2">>, <<"frs3", "frs3">>, <<"rm", "rm">>>>],
    [fam |-> "Nmsub", mask |-> W(\b0000011000000000, \b0000000001111111), want |-> W(\b0000001000000000, \b0000000001001011),
     variant |-> "FnmsubD", fields |-> <<<<"frd", "frd">>, <<"frs1", "frs1">>, <<"frs2", "frs2">>, <<"frs3", "frs3">>, <<"rm", "rm">>>>],
    [fam |-> "Nmsub", mask |-> W(\b0000011000000000, \b0000000001111111), want |-> W(\b0000011000000000, \b0000000001001011),
     variant |-> "FnmsubQ", fields |-> <<<<"frd", "frd">>, <<"frs1", "frs1">>, <<"frs2", "frs2">>, <<"frs3", "frs3">>, <<"rm", "rm">>>>],
    [fam |-> "Nmsub", mask |-> W(\b0000011000000000, \b0000000001111111), want |-> W(\b0000000000000000, \b0000000001001011),
     variant |-> "FnmsubS", fields |-> <<<<"frd", "frd">>, <<"frs1", "frs1">>, <<"frs2", "frs2">>, <<"frs3", "frs3">>, <<"rm", "rm">>>>],
    [fam |-> "Op", mask |-> W(\b1111111000000000, \b0111000001111111), want |-> W(\b0000000000000000, \b0000000000110011),
     variant |-> "Add", fields |-> <<<<"rd", "rd">>, <<"rs1", "rs1">>, <<"rs2", "rs2">>>>],
    [fam |-> "Op", mask |-> W(\b1111111000000000, \b0111000001111111), want |-> W(\b0000000000000000, \b0111000000110011),
     variant |-> "And", fields |-> <<<<"rd", "rd">>, <<"rs1", "rs1">>, <<"rs2", "rs2">>>>],
    [fam |-> "Op", mask |-> W(\b1111111000000000, \b0111000001111111), want |-> W(\b0000001000000000, \b0100000000110011),
     variant |-> "Div", fields |-> <<<<"rd", "rd">>, <<"rs1", "rs1">>, <<"rs2", "rs2">>>>],
    [fam |-> "Op", mask |-> W(\b1111111000000000, \b0111000001111111), want |-> W(\b0000001000000000, \b0101000000110011),
     variant |-> "Divu", fields |-> <<<<"rd", "rd">>, <<"rs1", "rs1">>, <<"rs2", "rs2">>>>],
    [fam |-> "Op", mask |-> W(\b1111111000000000, \b0111000001111111), want |-> W(\b0000001000000000, \b0000000000110011),
     variant |-> "Mul", fields |-> <<<<"rd", "rd">>, <<"rs1", "rs1">>, <<"rs2", "rs2">>>>],
    [fam |-> "Op", mask |-> W(\b1111111000000000, \b0111000001111111), want |-> W(\b0000001000000000, \b0001000000110011),
     variant |-> "Mulh", fields |-> <<<<"rd", "rd">>, <<"rs1", "rs1">>, <<"rs2", "rs2">>>>],
    [fam |-> "Op", mask |-> W(\b1111111000000000, \b0111000001111111), want |-> W(\b0000001000000000, \b0010000000110011),
     variant |-> "Mulhsu", fields |-> <<<<"rd", "rd">>, <<"rs1", "rs1">>, <<"rs2", "rs2">>>>],
    [fam |-> "Op", mask |-> W(\b1111111000000000, \b0111000001111111), want |-> W(\b0000001000000000, \b0011000000110011),
     variant |-> "Mulhu", fields |-> <<<<"rd", "rd">>, <<"rs1", "rs1">>, <<"rs2", "rs2">>>>],
    [fam |-> "Op", mask |-> W(\b1111111000000000, \b0111000001111111), want |-> W(\b0000000000000000, \b0110000000110011),
     variant |-> "Or", fields |-> <<<<"rd", "rd">>, <<"rs1", "rs1">>, <<"rs2", "rs2">>>>],
    [fam |-> "Op", mask |-> W(\b1111111000000000, \b0111000001111111), want |-> W(\b0000001000000000, \b0110000000110011),
     variant |-> "Rem", fields |-> <<<<"rd", "rd">>, <<"rs1", "rs1">>, <<"rs2", "rs2">>>>],
    [fam |-> "Op", mask |-> W(\b1111111000000000, \b0111000001111111), want |-> W(\b0000001000000000, \b0111000000110011),
     variant |-> "Remu", fields |-> <<<<"rd", "rd">>, <<"rs1", "rs1">>, <<"rs2", "rs2">>>>],
    [fam |-> "Op", mask |-> W(\b1111111000000000, \b0111000001111111), want |-> W(\b0000000000000000, \b0001000000110011),
     variant |-> "Sll", fields |-> <<<<"rd", "rd">>, <<"rs1", "rs1">>, <<"rs2", "rs2">>>>],
    [fam |-> "Op", mask |-> W(\b1111111000000000, \b0111000001111111), want |-> W(\b0000000000000000, \b0010000000110011),
     variant |-> "Slt", fields |-> <<<<"rd", "rd">>, <<"rs1", "rs1">>, <<"rs2", "rs2">>>>],
    [fam |-> "Op", mask |-> W(\b1111111000000000, \b0111000001111111), want |-> W(\b0000000000000000, \b0011000000110011),
     variant |-> "Sltu", fields |-> <<<<"rd", "rd">>, <<"rs1", "rs1">>, <<"rs2", "rs2">>>>],
    [fam |-> "Op", mask |-> W(\b1111111000000000, \b0111000001111111), want |-> W(\b0100000000000000, \b0101000000110011),
     variant |-> "Sra", fields |-> <<<<"rd", "rd">>, <<"rs1", "rs1">>, <<"rs2", "rs2">>>>],
    [fam |-> "Op", mask |-> W(\b1111111000000000, \b0111000001111111), want |-> W(\b0000000000000000, \b0101000000110011),
     variant |-> "Srl", fields |-> <<<<"rd", "rd">>, <<"rs1", "rs1">>, <<"rs2", "rs2">>>>],
    [fam |-> "Op", mask |-> W(\b1111111000000000, \b0111000001111111), want |-> W(\b0100000000000000, \b0000000000110011),
     variant |-> "Sub", fields |-> <<<<"rd", "rd">>, <<"rs1", "rs1">>, <<"rs2", "rs2">>>>],
    [fam |-> "Op", mask |-> W(\b1111111000000000, \b0111000001111111), want |-> W(\b0000000000000000, \b0100000000110011),
     variant |-> "Xor", fields |-> <<<<"rd", "rd">>, <<"rs1", "rs1">>, <<"rs2", "rs2">>>>],
    [fam |-> "OpFp", mask |-> W(\b1111111000000000, \b0000000001111111), want |-> W(\b0000001000000000, \b0000000001010011),
     variant |-> "FaddD", fields |-> <<<<"frd", "frd">>, <<"frs1", "frs1">>, <<"frs2", "frs2">>, <<"rm", "rm">>>>],
    [fam |-> "OpFp", mask |-> W(\b1111111000000000, \b0000000001111111), want |-> W(\b0000011000000000, \b0000000001010011),
     variant |-> "FaddQ", fields |-> <<<<"frd", "frd">>, <<"frs1", "frs1">>, <<"frs2", "frs2">>, <<"rm", "rm">>>>],
    [fam |-> "OpFp", mask |-> W(\b1111111000000000, \b0000000001111111), want |-> W(\b0000000000000000, \b0000000001010011),
     variant |-> "FaddS", fields |-> <<<<"frd", "frd">>, <<"frs1", "frs1">>, <<"frs2", "frs2">>, <<"rm", "rm">>>>],
    [fam |-> "OpFp", mask |-> W(\b1111111111110000, \b0111000001111111), want |-> W(\b1110001000000000, \b0001000001010011),
     variant |-> "FclassD", fields |-> <<<<"rd", "rd">>, <<"frs1", "frs1">>>>],
    [fam |-> "OpFp", mask |-> W(\b1111111111110000, \b0111000001111111), want |-> W(\b1110011000000000, \b0001000001010011),
     variant |-> "FclassQ", fields |-> <<<<"rd", "rd">>, <<"frs1", "frs1">>>>],
    [fam |-> "OpFp", mask |-> W(\b1111111111110000, \b0111000001111111), want |-> W(\b1110000000000000, \b0001000001010011),
     variant |-> "FclassS", fields |-> <<<<"rd", "rd">>, <<"frs1", "frs1">>>>],
    [fam |-> "OpFp", mask |-> W(\b1111111111110000, \b0000000001111111), want |-> W(\b0100001000110000, \b0000000001010011),
     variant |-> "FcvtDQ", fields |-> <<<<"frd", "frd">>, <<"frs1", "frs1">>, <<"rm", "rm">>>>],
    [fam |-> "OpFp", mask |-> W(\b1111111111110000, \b0000000001111111), want |-> W(\b0100001000000000, \b0000000001010011),
     variant |-> "FcvtDS", fields |-> <<<<"frd", "frd">>, <<"frs1", "frs1">>, <<"rm", "rm">>>>],
    [fam |-> "OpFp", mask |-> W(\b1111111111110000, \b0000000001111111), want |-> W(\b1101001000000000, \b0000000001010011),
     variant |-> "FcvtDW", fields |-> <<<<"frd", "frd">>, <<"rs1", "rs1">>, <<"rm", "rm">>>>],
    [fam |-> "OpFp", mask |-> W(\b1111111111110000, \b0000000001111111), want |-> W(\b1101001000010000, \b0000000001010011),
     variant |-> "FcvtDWu", fields |-> <<<<"frd", "frd">>, <<"rs1", "rs1">>, <<"rm", "rm">>>>],
    [fam |-> "OpFp", mask |-> W(\b1111111111110000, \b0000000001111111), want |-> W(\b0100011000010000, \b0000000001010011),
     variant |-> "FcvtQD", fields |-> <<<<"frd", "frd">>, <<"frs1", "frs1">>, <<"rm", "rm">>>>],
    [fam |-> "OpFp", mask |-> W(\b1111111111110000, \b0000000001111111), want |-> W(\b0100011000000000, \b0000000001010011),
     variant |-> "FcvtQS", fields |-> <<<<"frd", "frd">>, <<"frs1", "frs1">>, <<"rm", "rm">>>>],
    [fam |-> "OpFp", mask |-> W(\b1111111111110000, \b0000000001111111), want |-> W(\b1101011000000000, \b0000000001010011),
     variant |-> "FcvtQW", fields |-> <<<<"frd", "frd">>, <<"rs1", "rs1">>, <<"rm", "rm">>>>],
    [fam |-> "OpFp", mask |-> W(\b1111111111110000, \b0000000001111111), want |-> W(\b1101011000010000, \b0000000001010011),
     variant |-> "FcvtQWu", fields |-> <<<<"frd", "frd">>, <<"rs1", "rs1">>, <<"rm", "rm">>>>],
    [fam |-> "OpFp", mask |-> W(\b1111111111110000, \b0000000001111111), want |-> W(\b0100000000010000, \b0000000001010011),
     variant |-> "FcvtSD", fields |-> <<<<"frd", "frd">>, <<"frs1", "frs1">>, <<"rm", "rm">>>>],
    [fam |-> "OpFp", mask |-> W(\b1111111111110000, \b0000000001111111), want |-> W(\b0100000000110000, \b0000000001010011),
     variant |-> "FcvtSQ", fields |-> <<<<"frd", "frd">>, <<"frs1", "frs1">>, <<"rm", "rm">>>>],
    [fam |-> "OpFp", mask |-> W(\b1111111111110000, \b0000000001111111), want |-> W(\b1101000000000000, \b0000000001010011),
     variant |-> "FcvtSW", fields |-> <<<<"frd", "frd">>, <<"rs1", "rs1">>, <<"rm", "rm">>>>],
    [fam |-> "OpFp", mask |-> W(\b1111111111110000, \b0000000001111111), want |-> W(\b1101000000010000, \b0000000001010011),
     variant |-> "FcvtSWu", fields |-> <<<<"frd", "frd">>, <<"rs1", "rs1">>, <<"rm", "rm">>>>],
    [fam |-> "OpFp", mask |-> W(\b1111111111110000, \b0000000001111111), want |-> W(\b1100001000000000, \b0000000001010011),
     variant |-> "FcvtWD", fields |-> <<<<"rd", "rd">>, <<"frs1", "frs1">>, <<"rm", "rm">>>>],
    [fam |-> "OpFp", mask |-> W(\b1111111111110000, \b0000000001111111), want |-> W(\b1100011000000000, \b0000000001010011),
     variant |-> "FcvtWQ", fields |-> <<<<"rd", "rd">>, <<"frs1", "frs1">>, <<"rm", "rm">>>>],
    [fam |-> "OpFp", mask |-> W(\b1111111111110000, \b0000000001111111), want |-> W(\b1100000000000000, \b0000000001010011),
     variant |-> "FcvtWS", fields |-> <<<<"rd", "rd">>, <<"frs1", "frs1">>, <<"rm", "rm">>>>],
    [fam |-> "OpFp", mask |-> W(\b1111111111110000, \b0000000001111111), want |-> W(\b1100001000010000, \b0000000001010011),
     variant |-> "FcvtWuD", fields |-> <<<<"rd", "rd">>, <<"frs1", "frs1">>, <<"rm", "rm">>>>],
    [fam |-> "OpFp", mask |-> W(\b1111111111110000, \b0000000001111111), want |-> W(\b1100011000010000, \b0000000001010011),
     variant |-> "FcvtWuQ", fields |-> <<<<"rd", "rd">>, <<"frs1", "frs1">>, <<"rm", "rm">>>>],
    [fam |-> "OpFp", mask |-> W(\b1111111111110000, \b0000000001111111), want |-> W(\b1100000000010000, \b0000000001010011),
     variant |-> "FcvtWuS", fields |-> <<<<"rd", "rd">>, <<"frs1", "frs1">>, <<"rm", "rm">>>>],
    [fam |-> "OpFp", mask |-> W(\b1111111000000000, \b0000000001111111), want |-> W(\b0001101000000000, \b0000000001010011),
     variant |-> "FdivD", fields |-> <<<<"frd", "frd">>, <<"frs1", "frs1">>, <<"frs2", "frs2">>, <<"rm", "rm">>>>],
    [fam |-> "OpFp", mask |-> W(\b1111111000000000, \b0000000001111111), want |-> W(\b0001111000000000, \b0000000001010011),
     variant |-> "FdivQ", fields |-> <<<<"frd", "frd">>, <<"frs1", "frs1">>, <<"frs2", "frs2">>, <<"rm", "rm">>>>],
    [fam |-> "OpFp", mask |-> W(\b1111111000000000, \b0000000001111111), want |-> W(\b0001100000000000, \b0000000001010011),
     variant |-> "FdivS", fields |-> <<<<"frd", "frd">>, <<"frs1", "frs1">>, <<"frs2", "frs2">>, <<"rm", "rm">>>>],
    [fam |-> "OpFp", mask |-> W(\b1111111000000000, \b0111000001111111), want |-> W(\b1010001000000000, \b0010000001010011),
     variant |-> "FeqD", fields |-> <<<<"rd", "rd">>, <<"frs1", "frs1">>, <<"frs2", "frs2">>>>],
    [fam |-> "OpFp", mask |-> W(\b1111111000000000, \b0111000001111111), want |-> W(\b1010011000000000, \b0010000001010011),
     variant |-> "FeqQ", fields |-> <<<<"rd", "rd">>, <<"frs1", "frs1">>, <<"frs2", "frs2">>>>],
    [fam |-> "OpFp", mask |-> W(\b1111111000000000, \b0111000001111111), want |-> W(\b1010000000000000, \b0010000001010011),
     variant |-> "FeqS", fields |-> <<<<"rd", "rd">>, <<"frs1", "frs1">>, <<"frs2", "frs2">>>>],
    [fam |-> "OpFp", mask |-> W(\b1111111000000000, \b0111000001111111), want |-> W(\b1010001000000000, \b0000000001010011),
     variant |-> "FleD", fields |-> <<<<"rd", "rd">>, <<"frs1", "frs1">>, <<"frs2", "frs2">>>>],
    [fam |-> "OpFp", mask |-> W(\b1111111000000000, \b0111000001111111), want |-> W(\b1010011000000000, \b0000000001010011),
     variant |-> "FleQ", fields |-> <<<<"rd", "rd">>, <<"frs1", "frs1">>, <<"frs2", "frs2">>>>],
    [fam |-> "OpFp", mask |-> W(\b1111111000000000, \b0111000001111111), want |-> W(\b1010000000000000, \b0000000001010011),
     variant |-> "FleS", fields |-> <<<<"rd", "rd">>, <<"frs1", "frs1">>, <<"frs2", "frs2">>>>],
    [fam |-> "OpFp", mask |-> W(\b1111111000000000, \b0111000001111111), want |-> W(\b1010001000000000, \b0001000001010011),
     variant |-> "FltD", fields |-> <<<<"rd", "rd">>, <<"frs1", "frs1">>, <<"frs2", "frs2">>>>],
    [fam |-> "OpFp", mask |-> W(\b1111111000000000, \b0111000001111111), want |-> W(\b1010011000000000, \b0001000001010011),
     variant |-> "FltQ", fields |-> <<<<"rd", "rd">>, <<"frs1", "frs1">>, <<"frs2", "frs2">>>>],
    [fam |-> "OpFp", mask |-> W(\b1111111000000000, \b0111000001111111), want |-> W(\b1010000000000000, \b0001000001010011),
     variant |-> "FltS", fields |-> <<<<"rd", "rd">>, <<"frs1", "frs1">>, <<"frs2", "frs2">>>>],
    [fam |-> "OpFp", mask |-> W(\b1111111000000000, \b0111000001111111), want |-> W(\b0010101000000000, \b0001000001010011),
     variant |-> "FmaxD", fields |-> <<<<"frd", "frd">>, <<"frs1", "frs1">>, <<"frs2", "frs2">>>>],
    [fam |-> "OpFp", mask |-> W(\b1111111000000000, \b0111000001111111), want |-> W(\b0010111000000000, \b0001000001010011),
     variant |-> "FmaxQ", fields |-> <<<<"frd", "frd">>, <<"frs1", "frs1">>, <<"frs2", "frs2">>>>],
    [fam |-> "OpFp", mask |-> W(\b1111111000000000, \b0111000001111111), want |-> W(\b0010100000000000, \b0001000001010011),
     variant |-> "FmaxS", fields |-> <<<<"frd", "frd">>, <<"frs1", "frs1">>, <<"frs2", "frs2">>>>],
    [fam |-> "OpFp", mask |-> W(\b1111111000000000, \b0111000001111111), want |-> W(\b0010101000000000, \b0000000001010011),
     variant |-> "FminD", fields |-> <<<<"frd", "frd">>, <<"frs1", "frs1">>, <<"frs2", "frs2">>>>],
    [fam |-> "OpFp", mask |-> W(\b1111111000000000, \b0111000001111111), want |-> W(\b0010111000000000, \b0000000001010011),
     variant |-> "FminQ", fields |-> <<<<"frd", "frd">>, <<"frs1", "frs1">>, <<"frs2", "frs2">>>>],
    [fam |-> "OpFp", mask |-> W(\b1111111000000000, \b0111000001111111), want |-> W(\b0010100000000000, \b0000000001010011),
     variant |-> "FminS", fields |-> <<<<"frd", "frd">>, <<"frs1", "frs1">>, <<"frs2", "frs2">>>>],
    [fam |-> "OpFp", mask |-> W(\b1111111000000000, \b0000000001111111), want |-> W(\b0001001000000000, \b0000000001010011),
     variant |-> "FmulD", fields |-> <<<<"frd", "frd">>, <<"frs1", "frs1">>, <<"frs2", "frs2">>, <<"rm", "rm">>>>],
    [fam |-> "OpFp", mask |-> W(\b1111111000000000, \b0000000001111111), want |-> W(\b0001011000000000, \b0000000001010011),
     variant |-> "FmulQ", fields |-> <<<<"frd", "frd">>, <<"frs1", "frs1">>, <<"frs2", "frs2">>, <<"rm", "rm">>>>],
    [fam |-> "OpFp", mask |-> W(\b1111111000000000, \b0000000001111111), want |-> W(\b0001000000000000, \b0000000001010011),
     variant |-> "FmulS", fields |-> <<<<"frd", "frd">>, <<"frs1", "frs1">>, <<"frs2", "frs2">>, <<"rm", "rm">>>>],
    [fam |-> "OpFp", mask |-> W(\b1111111111110000, \b0111000001111111), want |-> W(\b1111000000000000, \b0000000001010011),
     variant |-> "FmvSX", fields |-> <<<<"frd", "frd">>, <<"rs1", "rs1">>>>],
    [fam |-> "OpFp", mask |-> W(\b1111111111110000, \b0111000001111111), want |-> W(\b1110000000000000, \b0000000001010011),
     variant |-> "FmvXS", fields |-> <<<<"rd", "rd">>, <<"frs1", "frs1">>>>],
    [fam |-> "OpFp", mask |-> W(\b1111111000000000, \b0111000001111111), want |-> W(\b0010001000000000, \b0000000001010011),
     variant |-> "FsgnjD", fields |-> <<<<"frd", "frd">>, <<"frs1", "frs1">>, <<"frs2", "frs2">>>>],
    [fam |-> "OpFp", mask |-> W(\b1111111000000000, \b0111000001111111), want |-> W(\b0010011000000000, \b0000000001010011),
     variant |-> "FsgnjQ", fields |-> <<<<"frd", "frd">>, <<"frs1", "frs1">>, <<"frs2", "frs2">>>>],
    [fam |-> "OpFp", mask |-> W(\b1111111000000000, \b0111000001111111), want |-> W(\b0010000000000000, \b0000000001010011),
     variant |-> "FsgnjS", fields |-> <<<<"frd", "frd">>, <<"frs1", "frs1">>, <<"frs2", "frs2">>>>],
    [fam |-> "OpFp", mask |-> W(\b1111111000000000, \b0111000001111111), want |-> W(\b0010001000000000, \b0001000001010011),
     variant |-> "FsgnjnD", fields |-> <<<<"frd", "frd">>, <<"frs1", "frs1">>, <<"frs2", "frs2">>>>],
    [fam |-> "OpFp", mask |-> W(\b1111111000000000, \b0111000001111111), want |-> W(\b0010011000000000, \b0001000001010011),
     variant |-> "FsgnjnQ", fields |-> <<<<"frd", "frd">>, <<"frs1", "frs1">>, <<"frs2", "frs2">>>>],
    [fam |-> "OpFp", mask |-> W(\b1111111000000000, \b0111000001111111), want |-> W(\b0010000000000000, \b0001000001010011),
     variant |-> "FsgnjnS", fields |-> <<<<"frd", "frd">>, <<"frs1", "frs1">>, <<"frs2", "frs2">>>>],
    [fam |-> "OpFp", mask |-> W(\b1111111000000000, \b0111000001111111), want |-> W(\b0010001000000000, \b0010000001010011),
     variant |-> "FsgnjxD", fields |-> <<<<"frd", "frd">>, <<"frs1", "frs1">>, <<"frs2", "frs2">>>>],
    [fam |-> "OpFp", mask |-> W(\b1111111000000000, \b0111000001111111), want |-> W(\b0010011000000000, \b0010000001010011),
     variant |-> "FsgnjxQ", fields |-> <<<<"frd", "frd">>, <<"frs1", "frs1">>, <<"frs2", "frs2">>>>],
    [fam |-> "OpFp", mask |-> W(\b1111111000000000, \b0111000001111111), want |-> W(\b0010000000000000, \b0010000001010011),
     variant |-> "FsgnjxS", fields |-> <<<<"frd", "frd">>, <<"frs1", "frs1">>, <<"frs2", "frs2">>>>],
    [fam |-> "OpFp", mask |-> W(\b1111111111110000, \b0000000001111111), want |-> W(\b0101101000000000, \b0000000001010011),
     variant |-> "FsqrtD", fields |-> <<<<"frd", "frd">>, <<"frs1", "frs1">>, <<"rm", "rm">>>>],
    [fam |-> "OpFp", mask |-> W(\b1111111111110000, \b0000000001111111), want |-> W(\b0101111000000000, \b0000000001010011),
     variant |-> "FsqrtQ", fields |-> <<<<"frd", "frd">>, <<"frs1", "frs1">>, <<"rm", "rm">>>>],
    [fam |-> "OpFp", mask |-> W(\b1111111111110000, \b0000000001111111), want |-> W(\b0101100000000000, \b0000000001010011),
     variant |-> "FsqrtS", fields |-> <<<<"frd", "frd">>, <<"frs1", "frs1">>, <<"rm", "rm">>>>],
    [fam |-> "OpFp", mask |-> W(\b1111111000000000, \b0000000001111111), want |-> W(\b0000101000000000, \b0000000001010011),
     variant |-> "FsubD", fields |-> <<<<"frd", "frd">>, <<"frs1", "frs1">>, <<"frs2", "frs2">>, <<"rm", "rm">>>>],
    [fam |-> "OpFp", mask |-> W(\b1111111000000000, \b0000000001111111), want |-> W(\b0000111000000000, \b0000000001010011),
     variant |-> "FsubQ", fields |-> <<<<"frd", "frd">>, <<"frs1", "frs1">>, <<"frs2", "frs2">>, <<"rm", "rm">>>>],
    [fam |-> "OpFp", mask |-> W(\b1111111000000000, \b0000000001111111), want |-> W(\b0000100000000000, \b0000000001010011),
     variant |-> "FsubS", fields |-> <<<<"frd", "frd">>, <<"frs1", "frs1">>, <<"frs2", "frs2">>, <<"rm", "rm">>>>],
    [fam |-> "OpImm", mask |-> W(\b0000000000000000, \b0111000001111111), want |-> W(\b0000000000000000, \b0000000000010011),
     variant |-> "Addi", fields |-> <<<<"rd", "rd">>, <<"rs1", "rs1">>, <<"simm", "imm12">>>>],
    [fam |-> "OpImm", mask |-> W(\b0000000000000000, \b0111000001111111), want |-> W(\b0000000000000000, \b0111000000010011),
     variant |-> "Andi", fields |-> <<<<"rd", "rd">>, <<"rs1", "rs1">>, <<"simm", "imm12">>>>],
    [fam |-> "OpImm", mask |-> W(\b0000000000000000, \b0111000001111111), want |-> W(\b0000000000000000, \b0110000000010011),
     variant |-> "Ori", fields |-> <<<<"rd", "rd">>, <<"rs1", "rs1">>, <<"simm", "imm12">>>>],
    [fam |-> "OpImm", mask |-> W(\b1111100000000000, \b0111000001111111), want |-> W(\b0000000000000000, \b0001000000010011),
     variant |-> "Slli", fields |-> <<<<"rd", "rd">>, <<"rs1", "rs1">>, <<"shamt", "shamt5">>>>],
    [fam |-> "OpImm", mask |-> W(\b0000000000000000, \b0111000001111111), want |-> W(\b0000000000000000, \b0010000000010011),
     variant |-> "Slti", fields |-> <<<<"rd", "rd">>, <<"rs1", "rs1">>, <<"simm", "imm12">>>>],
    [fam |-> "OpImm", mask |-> W(\b0000000000000000, \b0111000001111111), want |-> W(\b0000000000000000, \b0011000000010011),
     variant |-> "Sltiu", fields |-> <<<<"rd", "rd">>, <<"rs1", "rs1">>, <<"simm", "imm12">>>>],
    [fam |-> "OpImm", mask |-> W(\b1111100000000000, \b0111000001111111), want |-> W(\b0100000000000000, \b0101000000010011),
     variant |-> "Srai", fields |-> <<<<"rd", "rd">>, <<"rs1", "rs1">>, <<"shamt", "shamt5">>>>],
    [fam |-> "OpImm", mask |-> W(\b1111100000000000, \b0111000001111111), want |-> W(\b0000000000000000, \b0101000000010011),
     variant |-> "Srli", fields |-> <<<<"rd", "rd">>, <<"rs1", "rs1">>, <<"shamt", "shamt5">>>>],
    [fam |-> "OpImm", mask |-> W(\b0000000000000000, \b0111000001111111), want |-> W(\b0000000000000000, \b0100000000010011),
     variant |-> "Xori", fields |-> <<<<"rd", "rd">>, <<"rs1", "rs1">>, <<"simm", "imm12">>>>],
    [fam |-> "Store", mask |-> W(\b0000000000000000, \b0111000001111111), want |-> W(\b0000000000000000, \b0000000000100011),
     variant |-> "Sb", fields |-> <<<<"rs1", "rs1">>, <<"rs2", "rs2">>, <<"simm", "simm12">>>>],
    [fam |-> "Store", mask |-> W(\b0000000000000000, \b0111000001111111), want |-> W(\b0000000000000000, \b0001000000100011),
     variant |-> "Sh", fields |-> <<<<"rs1", "rs1">>, <<"rs2", "rs2">>, <<"simm", "simm12">>>>],
    [fam |-> "Store", mask |-> W(\b0000000000000000, \b0111000001111111), want |-> W(\b0000000000000000, \b0010000000100011),
     variant |-> "Sw", fields |-> <<<<"rs1", "rs1">>, <<"rs2", "rs2">>, <<"simm", "simm12">>>>],
    [fam |-> "StoreFp", mask |-> W(\b0000000000000000, \b0111000001111111), want |-> W(\b0000000000000000, \b0011000000100111),
     variant |-> "Fsd", fields |-> <<<<"rs1", "rs1">>, <<"frs2", "frs2">>, <<"simm", "simm12">>>>],
    [fam |-> "StoreFp", mask |-> W(\b0000000000000000, \b0111000001111111), want |-> W(\b0000000000000000, \b0100000000100111),
     variant |-> "Fsq", fields |-> <<<<"rs1", "rs1">>, <<"frs2", "frs2">>, <<"simm", "simm12">>>>],
    [fam |-> "StoreFp", mask |-> W(\b0000000000000000, \b0111000001111111), want |-> W(\b0000000000000000, \b0010000000100111),
     variant |-> "Fsw", fields |-> <<<<"rs1", "rs1">>, <<"frs2", "frs2">>, <<"simm", "simm12">>>>],
    [fam |-> "System", mask |-> W(\b0000000000000000, \b0111000001111111), want |-> W(\b0000000000000000, \b0011000001110011),
     variant |-> "Csrrc", fields |-> <<<<"rd", "rd">>, <<"rs1", "rs1">>, <<"csr", "csr12">>>>],
    [fam |-> "System", mask |-> W(\b0000000000000000, \b0111000001111111), want |-> W(\b0000000000000000, \b0111000001110011),
     variant |-> "Csrrci", fields |-> <<<<"rd", "rd">>, <<"uimm", "zimm">>, <<"csr", "csr12">>>>],
    [fam |-> "System", mask |-> W(\b0000000000000000, \b0111000001111111), want |-> W(\b0000000000000000, \b0010000001110011),
     variant |-> "Csrrs", fields |-> <<<<"rd", "rd">>, <<"rs1", "rs1">>, <<"csr", "csr12">>>>],
    [fam |-> "System", mask |-> W(\b0000000000000000, \b0111000001111111), want |-> W(\b0000000000000000, \b0110000001110011),
     variant |-> "Csrrsi", fields |-> <<<<"rd", "rd">>, <<"uimm", "zimm">>, <<"csr", "csr12">>>>],
    [fam |-> "System", mask |-> W(\b0000000000000000, \b0111000001111111), want |-> W(\b0000000000000000, \b0001000001110011),
     variant |-> "Csrrw", fields |-> <<<<"rd", "rd">>, <<"rs1", "rs1">>, <<"csr", "csr12">>>>],
    [fam |-> "System", mask |-> W(\b0000000000000000, \b0111000001111111), want |-> W(\b0000000000000000, \b0101000001110011),
     variant |-> "Csrrwi", fields |-> <<<<"rd", "rd">>, <<"uimm", "zimm">>, <<"csr", "csr12">>>>],
    [fam |-> "System", mask |-> W(\b1111111111111111, \b1111111111111111), want |-> W(\b0111101100100000, \b0000000001110011),
     variant |-> "Dret", fields |-> <<>>],
    [fam |-> "System", mask |-> W(\b1111111111111111, \b1111111111111111), want |-> W(\b0000000000010000, \b0000000001110011),
     variant |-> "Ebreak", fields |-> <<>>],
    [fam |-> "System", mask |-> W(\b1111111111111111, \b1111111111111111), want |-> W(\b0000000000000000, \b0000000001110011),
     variant |-> "Ecall", fields |-> <<>>],
    [fam |-> "System", mask |-> W(\b1111111111111111, \b1111111111111111), want |-> W(\b0010000000100000, \b0000000001110011),
     variant |-> "Hret", fields |-> <<>>],
    [fam |-> "System", mask |-> W(\b1111111111111111, \b1111111111111111), want |-> W(\b0011000000100000, \b0000000001110011),
     variant |-> "Mret", fields |-> <<>>],
    [fam |-> "System", mask |-> W(\b1111111111110000, \b0111111111111111), want |-> W(\b0001000001000000, \b0000000001110011),
     variant |-> "SfenceVm", fields |-> <<<<"rs1", "rs1">>>>],
    [fam |-> "System", mask |-> W(\b1111111000000000, \b0111111111111111), want |-> W(\b0001001000000000, \b0000000001110011),
     variant |-> "SfenceVma", fields |-> <<<<"rs1", "rs1">>, <<"rs2", "rs2">>>>],
    [fam |-> "System", mask |-> W(\b1111111111111111, \b1111111111111111), want |-> W(\b0001000000100000, \b0000000001110011),
     variant |-> "Sret", fields |-> <<>>],
    [fam |-> "System", mask |-> W(\b1111111111111111, \b1111111111111111), want |-> W(\b0000000000100000, \b0000000001110011),
     variant |-> "Uret", fields |-> <<>>],
    [fam |-> "System", mask |-> W(\b1111111111111111, \b1111111111111111), want |-> W(\b0001000001010000, \b0000000001110011),
     variant |-> "Wfi", fields |-> <<>>],
    [fam |-> "Compressed", mask |-> W(\b0000000000000000, \b1110000000000011), want |-> W(\b0000000000000000, \b1000000000000010),
     variant |-> "CAdd", fields |-> <<<<"rs1rd", "crs1rd">>, <<"rs2", "crs2">>>>],
    [fam |-> "Compressed", mask |-> W(\b0000000000000000, \b1110000000000011), want |-> W(\b0000000000000000, \b0000000000000001),
     variant |-> "CAddi", fields |-> <<<<"rs1rd", "crs1rd">>, <<"nzsimm", "cnzimmi">>>>],
    [fam |-> "Compressed", mask |-> W(\b0000000000000000, \b1110111110000011), want |-> W(\b0000000000000000, \b0110000100000001),
     variant |-> "CAddi16Sp", fields |-> <<<<"rs1rd", "crs1rd">>, <<"nzsimm", "cimm16sp">>>>],
    [fam |-> "Compressed", mask |-> W(\b0000000000000000, \b1110000000000011), want |-> W(\b0000000000000000, \b0000000000000000),
     variant |-> "CAddi4Spn", fields |-> <<<<"rd", "crdq">>, <<"nzuimm", "cimm4spn">>>>],
    [fam |-> "Compressed", mask |-> W(\b0000000000000000, \b1110110001100011), want |-> W(\b0000000000000000, \b1000110000100001),
     variant |-> "CAddw", fields |-> <<<<"rs1rd", "crs1rdq">>, <<"rs2", "crs2q">>>>],
    [fam |-> "Compressed", mask |-> W(\b0000000000000000, \b1110110001100011), want |-> W(\b0000000000000000, \b1000110001100001),
     variant |-> "CAnd", fields |-> <<<<"rs1rd", "crs1rdq">>, <<"rs2", "crs2q">>>>],
    [fam |-> "Compressed", mask |-> W(\b0000000000000000, \b1110110000000011), want |-> W(\b0000000000000000, \b1000100000000001),
     variant |-> "CAndi", fields |-> <<<<"rs1rd", "crs1rdq">>, <<"nzsimm", "cnzimmi">>>>],
    [fam |-> "Compressed", mask |-> W(\b0000000000000000, \b1110000000000011), want |-> W(\b0000000000000000, \b1100000000000001),
     variant |-> "CBeqz", fields |-> <<<<"rs1", "crs1q">>, <<"simm", "cimmb">>>>],
    [fam |-> "Compressed", mask |-> W(\b0000000000000000, \b1110000000000011), want |-> W(\b0000000000000000, \b1110000000000001),
     variant |-> "CBnez", fields |-> <<<<"rs1", "crs1q">>, <<"simm", "cimmb">>>>],
    [fam |-> "Compressed", mask |-> W(\b0000000000000000, \b1110111111111111), want |-> W(\b0000000000000000, \b1000000000000010),
     variant |-> "CEbreak", fields |-> <<>>],
    [fam |-> "Compressed", mask |-> W(\b0000000000000000, \b1110000000000011), want |-> W(\b0000000000000000, \b0010000000000000),
     variant |-> "CFld", fields |-> <<<<"frd", "cfrdq">>, <<"rs1", "crs1q">>, <<"uimm", "cimmd">>>>],
    [fam |-> "Compressed", mask |-> W(\b0000000000000000, \b1110000000000011), want |-> W(\b0000000000000000, \b0010000000000010),
     variant |-> "CFldsp", fields |-> <<<<"frd", "cfrd">>, <<"uimm", "cimmldsp">>>>],
    [fam |-> "Compressed", mask |-> W(\b0000000000000000, \b1110000000000011), want |-> W(\b0000000000000000, \b0110000000000000),
     variant |-> "CFlw", fields |-> <<<<"frd", "cfrdq">>, <<"rs1", "crs1q">>, <<"uimm", "cimmw">>>>],
    [fam |-> "Compressed", mask |-> W(\b0000000000000000, \b1110000000000011), want |-> W(\b0000000000000000, \b0110000000000010),
     variant |-> "CFlwsp", fields |-> <<<<"frd", "cfrd">>, <<"uimm", "cimmlwsp">>>>],
    [fam |-> "Compressed", mask |-> W(\b0000000000000000, \b1110000000000011), want |-> W(\b0000000000000000, \b1010000000000000),
     variant |-> "CFsd", fields |-> <<<<"rs1", "crs1q">>, <<"frs2", "cfrs2q">>, <<"uimm", "cimmd">>>>],
    [fam |-> "Compressed", mask |-> W(\b0000000000000000, \b1110000000000011), want |-> W(\b0000000000000000, \b1010000000000010),
     variant |-> "CFsdsp", fields |-> <<<<"frs2", "cfrs2">>, <<"uimm", "cimmsdsp">>>>],
    [fam |-> "Compressed", mask |-> W(\b0000000000000000, \b1110000000000011), want |-> W(\b0000000000000000, \b1110000000000000),
     variant |-> "CFsw", fields |-> <<<<"rs1", "crs1q">>, <<"frs2", "cfrs2q">>, <<"uimm", "cimmw">>>>],
    [fam |-> "Compressed", mask |-> W(\b0000000000000000, \b1110000000000011), want |-> W(\b0000000000000000, \b1110000000000010),
     variant |-> "CFswsp", fields |-> <<<<"frs2", "cfrs2">>, <<"uimm", "cimmswsp">>>>],
    [fam |-> "Compressed", mask |-> W(\b0000000000000000, \b1110000000000011), want |-> W(\b0000000000000000, \b1010000000000001),
     variant |-> "CJ", fields |-> <<<<"simm", "cimmj">>>>],
    [fam |-> "Compressed", mask |-> W(\b0000000000000000, \b1110000000000011), want |-> W(\b0000000000000000, \b0010000000000001),
     variant |-> "CJal", fields |-> <<<<"simm", "cimmj">>>>],
    [fam |-> "Compressed", mask |-> W(\b0000000000000000, \b1110000001111111), want |-> W(\b0000000000000000, \b1000000000000010),
     variant |-> "CJalr", fields |-> <<<<"rd", "crd0">>, <<"rs1", "crs1">>>>],
    [fam |-> "Compressed", mask |-> W(\b0000000000000000, \b1110000001111111), want |-> W(\b0000000000000000, \b1000000000000010),
     variant |-> "CJr", fields |-> <<<<"rd", "crd0">>, <<"rs1", "crs1">>>>],
    [fam |-> "Compressed", mask |-> W(\b0000000000000000, \b1110000000000011), want |-> W(\b0000000000000000, \b0100000000000001),
     variant |-> "CLi", fields |-> <<<<"rs1rd", "crs1rd">>, <<"simm", "cimmi">>>>],
    [fam |-> "Compressed", mask |-> W(\b0000000000000000, \b1110000000000011), want |-> W(\b0000000000000000, \b0110000000000001),
     variant |-> "CLui", fields |-> <<<<"rd", "crd">>, <<"nzsimm", "cimmui">>>>],
    [fam |-> "Compressed", mask |-> W(\b0000000000000000, \b1110000000000011), want |-> W(\b0000000000000000, \b0100000000000000),
     variant |-> "CLw", fields |-> <<<<"rd", "crdq">>, <<"rs1", "crs1q">>, <<"uimm", "cimmw">>>>],
    [fam |-> "Compressed", mask |-> W(\b0000000000000000, \b1110000000000011), want |-> W(\b0000000000000000, \b0100000000000010),
     variant |-> "CLwsp", fields |-> <<<<"rd", "crd">>, <<"uimm", "cimmlwsp">>>>],
    [fam |-> "Compressed", mask |-> W(\b0000000000000000, \b1110000000000011), want |-> W(\b0000000000000000, \b1000000000000010),
     variant |-> "CMv", fields |-> <<<<"rd", "crd">>, <<"rs2", "crs2">>>>],
    [fam |-> "Compressed", mask |-> W(\b0000000000000000, \b1110111111111111), want |-> W(\b0000000000000000, \b0000000000000001),
     variant |-> "CNop", fields |-> <<>>],
    [fam |-> "Compressed", mask |-> W(\b0000000000000000, \b1110110001100011), want |-> W(\b0000000000000000, \b1000110001000001),
     variant |-> "COr", fields |-> <<<<"rs1rd", "crs1rdq">>, <<"rs2", "crs2q">>>>],
    [fam |-> "Compressed", mask |-> W(\b0000000000000000, \b1110000000000011), want |-> W(\b0000000000000000, \b0000000000000010),
     variant |-> "CSlli", fields |-> <<<<"rs1rd", "crs1rd">>, <<"nzuimm", "cimmsh5">>>>],
    [fam |-> "Compressed", mask |-> W(\b0000000000000000, \b1110110000000011), want |-> W(\b0000000000000000, \b1000010000000001),
     variant |-> "CSrai", fields |-> <<<<"rs1rd", "crs1rdq">>, <<"nzuimm", "cimmsh5">>>>],
    [fam |-> "Compressed", mask |-> W(\b0000000000000000, \b1110110000000011), want |-> W(\b0000000000000000, \b1000000000000001),
     variant |-> "CSrli", fields |-> <<<<"rs1rd", "crs1rdq">>, <<"nzuimm", "cimmsh5">>>>],
    [fam |-> "Compressed", mask |-> W(\b0000000000000000, \b1110110001100011), want |-> W(\b0000000000000000, \b1000110000000001),
     variant |-> "CSub", fields |-> <<<<"rs1rd", "crs1rdq">>, <<"rs2", "crs2q">>>>],
    [fam |-> "Compressed", mask |-> W(\b0000000000000000, \b1110110001100011), want |-> W(\b0000000000000000, \b1000110000000001),
     variant |-> "CSubw", fields |-> <<<<"rs1rd", "crs1rdq">>, <<"rs2", "crs2q">>>>],
    [fam |-> "Compressed", mask |-> W(\b0000000000000000, \b1110000000000011), want |-> W(\b0000000000000000, \b1100000000000000),
     variant |-> "CSw", fields |-> <<<<"rs1", "crs1q">>, <<"rs2", "crs2q">>, <<"uimm", "cimmw">>>>],
    [fam |-> "Compressed", mask |-> W(\b0000000000000000, \b1110000000000011), want |-> W(\b0000000000000000, \b1100000000000010),
     variant |-> "CSwsp", fields |-> <<<<"rs2", "crs2">>, <<"uimm", "cimmswsp">>>>],
    [fam |-> "Compressed", mask |-> W(\b0000000000000000, \b1110110001100011), want |-> W(\b0000000000000000, \b1000110000100001),
     variant |-> "CXor", fields |-> <<<<"rs1rd", "crs1rdq">>, <<"rs2", "crs2q">>>>]
>>

\* The variant value an entry builds from the raw word: the variant's name and
\* the first n of its fields, each filled by its extractor.
RECURSIVE Operation(_, _, _, _)
Operation(variant, fields, raw, n) ==
    IF n = 0 THEN [variant |-> variant]
    ELSE (fields[n][1] :> extract(raw, fields[n][2])) @@ Operation(variant, fields, raw, n - 1)

\* The entries of one family, in source order.
FamilyTable == [f \in (DOMAIN Opcode) \cup {"Compressed"} |->
                   SelectSeq(DecodeTable, LAMBDA e : e.fam = f)]

\* The if / else-if chain of one family: the first entry that matches wins,
\* and the final else yields Invalid.
RECURSIVE FirstMatch(_, _, _)
FirstMatch(raw, table, i) ==
    IF i > Len(table) THEN [variant |-> "Invalid"]
    ELSE IF raw_matches(raw, table[i].mask, table[i].want)
         THEN Operation(table[i].variant, table[i].fields, raw, Len(table[i].fields))
         ELSE FirstMatch(raw, table, i + 1)

decode_from_raw(raw) ==
    LET oc == raw_opcode(raw)
        family == IF \E f \in DOMAIN Opcode : Opcode[f] = oc
                  THEN CHOOSE f \in DOMAIN Opcode : Opcode[f] = oc
                  ELSE "Compressed"
    IN  FirstMatch(raw, FamilyTable[family], 1)

\* enum OperationRV32: the names of its variants.
OperationRV32 == {
    "Invalid", "Add", "Addi", "And", "Andi", "Auipc", "Beq", "Bge", "Bgeu", "Blt",
    "Bltu", "Bne", "Fence", "FenceI", "Jal", "Jalr", "Lb", "Lbu", "Lh", "Lhu", "Lui",
    "Lw", "Or", "Ori", "Sb", "Sh", "Sll", "Slli", "Slt", "Slti", "Sltiu", "Sltu",
    "Sra", "Srai", "Srl", "Srli", "Sub", "Sw", "Xor", "Xori", "Div", "Divu", "Mul",
    "Mulh", "Mulhsu", "Mulhu", "Rem", "Remu", "AmoaddW", "AmoandW", "AmomaxW",
    "AmomaxuW", "AmominW", "AmominuW", "AmoorW", "AmoswapW", "AmoxorW", "LrW", "ScW",
    "Csrrc", "Csrrci", "Csrrs", "Csrrsi", "Csrrw", "Csrrwi", "Dret", "Ebreak",
    "Ecall", "Hret", "Mret", "SfenceVm", "SfenceVma", "Sret", "Uret", "Wfi", "FaddS",
    "FclassS", "FcvtSW", "FcvtSWu", "FcvtWS", "FcvtWuS", "FdivS", "FeqS", "FleS",
    "FltS", "Flw", "FmaddS", "FmaxS", "FminS", "FmsubS", "FmulS", "FmvSX", "FmvXS",
    "FnmaddS", "FnmsubS", "FsgnjS", "FsgnjnS", "FsgnjxS", "FsqrtS", "FsubS", "Fsw",
    "FaddD", "FclassD", "FcvtDS", "FcvtDW", "FcvtDWu", "FcvtSD", "FcvtWD", "FcvtWuD",
    "FdivD", "FeqD", "Fld", "FleD", "FltD", "FmaddD", "FmaxD", "FminD", "FmsubD",
    "FmulD", "FnmaddD", "FnmsubD", "Fsd", "FsgnjD", "FsgnjnD", "FsgnjxD", "FsqrtD",
    "FsubD", "FaddQ", "FclassQ", "FcvtDQ", "FcvtQD", "FcvtQS", "FcvtQW", "FcvtQWu",
    "FcvtSQ", "FcvtWQ", "FcvtWuQ", "FdivQ", "FeqQ", "FleQ", "Flq", "FltQ", "FmaddQ",
    "FmaxQ", "FminQ", "FmsubQ", "FmulQ", "FnmaddQ", "FnmsubQ", "FsgnjQ", "FsgnjnQ",
    "FsgnjxQ", "Fsq", "FsqrtQ", "FsubQ", "CAdd", "CAddi", "CAddi16Sp", "CAddi4Spn",
    "CAddw", "CAnd", "CAndi", "CBeqz", "CBnez", "CEbreak", "CFld", "CFldsp", "CFlw",
    "CFlwsp", "CFsd", "CFsdsp", "CFsw", "CFswsp", "CJ", "CJal", "CJalr", "CJr",
    "CLi", "CLui", "CLw", "CLwsp", "CMv", "CNop", "COr", "CSlli", "CSrai", "CSrli",
    "CSub", "CSubw", "CSw", "CSwsp", "CXor" }

\* The sum of 2^b over the bit positions b of a set.
RECURSIVE BitSum(_)
BitSum(S) ==
    IF S = {} THEN 0
    ELSE LET b == CHOOSE x \in S : TRUE
         IN  2^b + BitSum(S \ {b})

\* The raw words that carry the pattern of entry i of the table.  For an
\* entry of the compressed table: the pattern with every setting of the bits
\* [15:0] outside its mask (the bits [31:16] of a 16-bit instruction are the
\* next parcel; no test of the compressed table looks at them).  For an entry
\* of a 32-bit family: the pattern with the bits outside its mask all 0 and
\* all 1.
Encodings(i) ==
    LET e == DecodeTable[i]
    IN  IF e.fam = "Compressed"
        THEN {e.want + BitSum(S) : S \in SUBSET {b \in 0..15 : Bits(e.mask, b, 1) = 0}}
        ELSE {e.want, Or32(e.want, -1 - e.mask)}

\* The entries of the family a raw word is routed to that accept the word,
\* by their position in that family's chain.
MatchingEntries(raw) ==
    LET oc == raw_opcode(raw)
        family == IF \E f \in DOMAIN Opcode : Opcode[f] = oc
                  THEN CHOOSE f \in DOMAIN Opcode : Opcode[f] = oc
                  ELSE "Compressed"
        table == FamilyTable[family]
    IN  {j \in DOMAIN table : raw_matches(raw, table[j].mask, table[j].want)}

-----------------------------------------------------------------------------
(* ExceptionCause (exception.rs), ExecStatus (exec.rs), Result             *)

\* enum ExceptionCause: the cause codes.
ExceptionCause == [
    InstructionAddressMisaligned |-> 0, InstructionAccessFault |-> 1,
    IllegalInstruction |-> 2, Breakpoint |-> 3,
    LoadAddressMisaligned |-> 4, LoadAccessFault |-> 5,
    StoreAddressMisaligned |-> 6, StoreAccessFault |-> 7,
    ECallFromUser |-> 8, ECallFromSupervisor |-> 9, ECallFromMachine |-> 11,
    InstructionPageFault |-> 12, LoadPageFault |-> 13, StorePageFault |-> 15 ]

\* enum ExecStatus.
Running == [tag |-> "Running"]
WaitingForInterrupt == [tag |-> "WaitingForInterrupt"]
EnvironmentCall(addr) == [tag |-> "EnvironmentCall", addr |-> addr]
EnvironmentBreak(addr) == [tag |-> "EnvironmentBreak", addr |-> addr]

\* Result::Ok / Result::Err.
Ok(v) == [ok |-> TRUE, v |-> v]
Err(e) == [ok |-> FALSE, e |-> e]

as_code_load_cause(e) ==
    CASE e = "Misaligned" -> "InstructionAddressMisaligned"
      [] e = "AccessFault" -> "InstructionAccessFault"
      [] e = "PageFault" -> "InstructionPageFault"

as_data_load_cause(e) ==
    CASE e = "Misaligned" -> "LoadAddressMisaligned"
      [] e = "AccessFault" -> "LoadAccessFault"
      [] e = "PageFault" -> "LoadPageFault"

\* A store fault reported with the cause of a load fault.
as_data_store_cause_of_load(e) ==
    CASE e = "Misaligned" -> "LoadAddressMisaligned"
      [] e = "AccessFault" -> "LoadAccessFault"
      [] e = "PageFault" -> "LoadPageFault"

as_data_store_cause(e) ==
    CASE e = "Misaligned" -> "StoreAddressMisaligned"
      [] e = "AccessFault" -> "StoreAccessFault"
      [] e = "PageFault" -> "StorePageFault"

-----------------------------------------------------------------------------
(* The memory bus (memory.rs).  A bus value is the stack the driver        *)
(* builds: AddressTransformer(AddressConverter(Memory), callback), as a    *)
(* record [buf, writable, callback]; buf maps 0..len-1 to bytes.           *)

\* Length of the host buffer behind the bus.
MemLen == 16

\* The driver's load address.
start_pc == MinI32

\* (addr + s) % buf.len() for a usize addr that came from a u32: the sum is
\* taken on the unsigned value of addr and cannot overflow a 64-bit usize.
BufIndex(addr, s, l) ==
    ((addr % l) + (IF addr < 0 THEN ((MaxI32 % l) + 1) % l ELSE 0) + s) % l

Memory_read_byte(m, addr) == Ok(m.buf[BufIndex(addr, 0, MemLen)])

Memory_read_halfword(m, addr) ==
    Ok(m.buf[BufIndex(addr, 0, MemLen)] + m.buf[BufIndex(addr, 1, MemLen)] * 256)

\* The four bytes are or-ed into a u32, the byte at addr lowest.
Memory_read_word(m, addr) ==
    Ok(W(
        m.buf[BufIndex(addr, 2, MemLen)] + m.buf[BufIndex(addr, 3, MemLen)] * 256,
        m.buf[BufIndex(addr, 0, MemLen)] + m.buf[BufIndex(addr, 1, MemLen)] * 256))

\* A write yields Err(AccessFault) on a ROM, and otherwise Ok with the bus
\* after the write.
Memory_write_byte(m, addr, data) ==
    IF ~m.writable THEN Err("AccessFault")
    ELSE Ok([m EXCEPT !.buf[BufIndex(addr, 0, MemLen)] = data])

Memory_write_halfword(m, addr, data) ==
    IF ~m.writable THEN Err("AccessFault")
    ELSE LET b0 == [m EXCEPT !.buf[BufIndex(addr, 0, MemLen)] = Bits(data, 0, 8)]
             b1 == [b0 EXCEPT !.buf[BufIndex(addr, 1, MemLen)] = Bits(data, 8, 8)]
         IN  Ok(b1)

Memory_write_word(m, addr, data) ==
    IF ~m.writable THEN Err("AccessFault")
    ELSE LET b0 == [m EXCEPT !.buf[BufIndex(addr, 0, MemLen)] = Bits(data, 0, 8)]
             b1 == [b0 EXCEPT !.buf[BufIndex(addr, 1, MemLen)] = Bits(data, 8, 8)]
             b2 == [b1 EXCEPT !.buf[BufIndex(addr, 2, MemLen)] = Bits(data, 16, 8)]
             b3 == [b2 EXCEPT !.buf[BufIndex(addr, 3, MemLen)] = Bits(data, 24, 8)]
         IN  Ok(b3)

\* (addr + s) % l where addr is a usize that may lie at the top of the address
\* space: addr >= 0 is the address addr, addr < 0 is the address 2^64 + addr.
\* The sum is taken modulo 2^64, as a build without overflow checks takes it.
UsizeIndex(addr, s, l) ==
    LET m16 == 65536 % l
        m32 == (m16 * m16) % l
        m64 == (m32 * m32) % l
    IN  IF addr + s >= 0 THEN (addr + s) % l ELSE (m64 + (addr + s)) % l

\* A write that does not test whether the memory is writable.
Memory_write_unprotected(m, width, addr, data, overflow_checks) ==
    Ok([m EXCEPT !.buf = [i \in DOMAIN m.buf |->
        LET hits == {s \in 0..(width - 1) : UsizeIndex(addr, s, MemLen) = i}
        IN  IF hits = {} THEN m.buf[i]
            ELSE data[(CHOOSE s \in hits : \A t \in hits : t <= s) + 1]]])

\* Memory::read_byte .. read_quadword at any usize address.  A value of width
\* bytes is the sequence of its bytes, least significant first: byte s is
\* (value >> (s * 8)) & 0xff.  addr + s overflows a usize when addr is within
\* s of the top; a build with overflow checks panics there, a build without
\* them wraps the sum.  read_byte adds nothing and cannot overflow.
Memory_read(m, width, addr, overflow_checks) ==
    IF overflow_checks /\ addr < 0 /\ addr + (width - 1) >= 0
    THEN [ok |-> FALSE, e |-> "Panic"]
    ELSE Ok([s \in 1..width |-> m.buf[UsizeIndex(addr, s - 1, MemLen)]])

\* Memory::write_byte .. write_quadword at any usize address: AccessFault on
\* a ROM, before any byte is touched; otherwise byte s goes to
\* buf[(addr + s) % l], s ascending; a panic leaves the bytes written so far.
Memory_write(m, width, addr, data, overflow_checks) ==
    LET stops == overflow_checks /\ addr < 0 /\ addr + (width - 1) >= 0
        done == IF stops THEN -addr ELSE width
        after == [m EXCEPT !.buf = [i \in DOMAIN m.buf |->
            LET hits == {s \in 0..(done - 1) : UsizeIndex(addr, s, MemLen) = i}
            IN  IF hits = {} THEN m.buf[i]
                ELSE data[(CHOOSE s \in hits : \A t \in hits : t <= s) + 1]]]
    IN  IF ~m.writable THEN Err("AccessFault")
        ELSE IF stops THEN [ok |-> FALSE, e |-> "Panic", v |-> after]
        ELSE Ok(after)

\* The callback of the AddressTransformer.  callback.fault = "None" is the
\* driver's closure |addr| Ok(addr.wrapping_sub(start_pc)); any other value
\* is a closure that maps the addresses start_pc .. start_pc + len - 1 the
\* same way and answers Err(fault) for every address outside the buffer.
translate_address(callback, addr) ==
    LET inner == wrapping_sub(addr, start_pc)
    IN  IF callback.fault # "None" /\ ~LtU(inner, MemLen)
        THEN Err(callback.fault)
        ELSE Ok(inner)

\* addr.try_into() from the u32 outside address to an inside address type of
\* inside_bits bits: Some(addr) when the value fits, None when it does not.
\* Every u32 fits a type of 32 bits or more (usize on the driver's host).
convert_address(addr, inside_bits) ==
    IF inside_bits >= 32 THEN [some |-> TRUE, v |-> addr]
    ELSE IF 0 <= addr /\ addr < 2^inside_bits THEN [some |-> TRUE, v |-> addr]
    ELSE [some |-> FALSE]

\* An AddressTransformer that calls the wrapped bus with the incoming address
\* when its callback fails.
AddressTransformer_forwarding(callback, addr, Wrapped) ==
    LET t == translate_address(callback, addr)
    IN  IF t.ok THEN Wrapped[t.v] ELSE Wrapped[addr]

\* Every method of AddressTransformer: translate, then forward or fail.
AddressTransformer(callback, addr, Wrapped) ==
    LET t == translate_address(callback, addr)
    IN  IF t.ok THEN Wrapped[t.v] ELSE Err(t.e)

\* Every method of AddressConverter: convert, then forward or PageFault.
AddressConverter(inside_bits, addr, Wrapped) ==
    LET c == convert_address(addr, inside_bits)
    IN  IF c.some THEN Wrapped[c.v] ELSE Err("PageFault")

\* A Bus<u32> method of the stack the driver builds: the transformer
\* forwards to the converter, which forwards to the Memory method.  The
\* converter is AddressConverter<u32, usize, Memory> on a host whose usize
\* has 64 bits.
Bus(m, addr, Method) ==
    AddressTransformer(m.callback, addr,
        [a1 \in Int |-> AddressConverter(64, a1, Method)])

\* The Bus<usize> method of a Memory by its name, for the byte, halfword and
\* word accesses.
Memory_method(m, method, addr, data) ==
    CASE method = "read_byte" -> Memory_read_byte(m, addr)
      [] method = "read_halfword" -> Memory_read_halfword(m, addr)
      [] method = "read_word" -> Memory_read_word(m, addr)
      [] method = "write_byte" -> Memory_write_byte(m, addr, data)
      [] method = "write_halfword" -> Memory_write_halfword(m, addr, data)
      [] method = "write_word" -> Memory_write_word(m, addr, data)

-----------------------------------------------------------------------------
(* SingleThreadUserHart (hart.rs).  A hart value is the record             *)
(* [pc, int_regs, float_regs, csrs, mem].                                  *)

pc_at_reset == 0
int_registers_at_reset == [r \in 0..31 |-> 0]
float_registers_at_reset == [r \in 0..31 |-> 0]
\* CSRs at reset with a vector base other than 0.
csrs_at_reset_vectored ==
    [ustatus |-> 0, uie |-> 0, utvec |-> 64, uscratch |-> 0, uepc |-> 0,
     ucause |-> 0, utval |-> 0, uip |-> 0, fflags |-> 0, frm |-> 0]

csrs_at_reset ==
    [ustatus |-> 0, uie |-> 0, utvec |-> 0, uscratch |-> 0, uepc |-> 0,
     ucause |-> 0, utval |-> 0, uip |-> 0, fflags |-> 0, frm |-> 0]

new(bus) ==
    [pc |-> pc_at_reset, int_regs |-> int_registers_at_reset,
     float_regs |-> float_registers_at_reset, csrs |-> csrs_at_reset, mem |-> bus]

read_pc(hart) == hart.pc
write_pc(hart, v) == [hart EXCEPT !.pc = v]

read_int_register(hart, reg) == hart.int_regs[reg]

\* write_int_register without the test for register zero.
write_int_register_unguarded(hart, reg, v) == [hart EXCEPT !.int_regs[reg] = v]

write_int_register(hart, reg, v) ==
    IF reg = 0 THEN hart ELSE [hart EXCEPT !.int_regs[reg] = v]

\* An f64 is carried as the integer that is twice its value (1.5 is 3).
write_float_register(hart, reg, v) == [hart EXCEPT !.float_regs[reg] = v]

\* A read_csr that answers 0 for every CSR.
read_csr_zero(hart, reg) == Ok(0)

\* read_csr / write_csr: the match has the default arm only.
read_csr(hart, reg) == Err("Unsupported")
write_csr(hart, reg, v) == Err("Unsupported")

\* hart.read_csr / hart.write_csr as the executor calls them through trait
\* Hart.  A hart of an implementation with working CSRs keeps them by number
\* in csrs.csr_file, and its read_csr and write_csr succeed for those
\* numbers; SingleThreadUserHart has no such field.
Hart_read_csr(hart, reg) ==
    IF "csr_file" \in DOMAIN hart.csrs /\ reg \in DOMAIN hart.csrs.csr_file
    THEN Ok(hart.csrs.csr_file[reg])
    ELSE read_csr(hart, reg)

Hart_write_csr(hart, reg, v) ==
    IF "csr_file" \in DOMAIN hart.csrs /\ reg \in DOMAIN hart.csrs.csr_file
    THEN Ok([hart EXCEPT !.csrs.csr_file[reg] = v])
    ELSE write_csr(hart, reg, v)

\* A reset that leaves the integer and float registers as they are.
reset_keeping_registers(hart, cause) ==
    [hart EXCEPT !.pc = pc_at_reset,
                 !.csrs = [csrs_at_reset EXCEPT !.ucause = cause]]

reset(hart, cause) ==
    [hart EXCEPT !.pc = pc_at_reset,
                 !.int_regs = int_registers_at_reset,
                 !.float_regs = float_registers_at_reset,
                 !.csrs = [csrs_at_reset EXCEPT !.ucause = cause]]

\* An exception that also saves the interrupted PC in uepc.
exception_saving_uepc(hart, cause) ==
    LET vec_base == And32(hart.csrs.utvec, Xor32(\b11, -1))
    IN  [write_pc(hart, vec_base) EXCEPT !.csrs.ucause = ExceptionCause[cause],
                                          !.csrs.uepc = hart.pc]

exception(hart, cause) ==
    LET vec_raw == hart.csrs.utvec
        mask == \b11
        vec_base == And32(vec_raw, Xor32(mask, -1))
        new_pc == vec_base
    IN  [write_pc(hart, new_pc) EXCEPT !.csrs.ucause = ExceptionCause[cause]]

\* The defaults of trait Hart that SingleThreadUserHart keeps.
fence_data(hart) == hart
fence_code(hart) == hart
fence_virtual_memory_config(hart, rs1, rs2) == exception(hart, "IllegalInstruction")
environment_call(hart, at) == FALSE
environment_break(hart, at) == FALSE

-----------------------------------------------------------------------------
(* Rust integer arithmetic on the word representation                      *)

\* i32 `/` and `%` (truncation toward zero), for b # 0 and not MinI32 / -1.
i32_divrem(a, b) ==
    LET q == IF b = MinI32 THEN (IF a = MinI32 THEN 1 ELSE 0)
             ELSE LET m == IF b < 0 THEN -b ELSE b
                      floor == a \div b
                  IN  IF a % m # 0 /\ ((a < 0) # (b < 0)) THEN floor + 1 ELSE floor
    IN  [q |-> q, r |-> a - q * b]

\* u32 `/` and `%`, for b # 0.
u32_divrem(a, b) ==
    IF b < 0 THEN (IF LtU(a, b) THEN [q |-> 0, r |-> a] ELSE [q |-> 1, r |-> wrapping_sub(a, b)])
    ELSE IF a >= 0 THEN [q |-> a \div b, r |-> a % b]
    ELSE LET h == Srl32(a, 1)
             l == a % 2
             q1 == h \div b
             r1 == h % b
             big == r1 >= (b - r1) - l
         IN  [q |-> wrapping_add(q1, q1) + (IF big THEN 1 ELSE 0),
              r |-> IF big THEN r1 - ((b - r1) - l) ELSE (r1 + r1) + l]

\* The 64-bit product of two u32 values, as its high and low words: schoolbook
\* multiplication on the bytes.
u64_mul(a, b) ==
    LET x == [i \in 0..3 |-> Bits(a, 8 * i, 8)]
        y == [i \in 0..3 |-> Bits(b, 8 * i, 8)]
        t0 == x[0] * y[0]
        t1 == x[0] * y[1] + x[1] * y[0] + (t0 \div 256)
        t2 == x[0] * y[2] + x[1] * y[1] + x[2] * y[0] + (t1 \div 256)
        t3 == x[0] * y[3] + x[1] * y[2] + x[2] * y[1] + x[3] * y[0] + (t2 \div 256)
        t4 == x[1] * y[3] + x[2] * y[2] + x[3] * y[1] + (t3 \div 256)
        t5 == x[2] * y[3] + x[3] * y[2] + (t4 \div 256)
        t6 == x[3] * y[3] + (t5 \div 256)
        t7 == t6 \div 256
    IN  [hi |-> W((t6 % 256) + (t7 % 256) * 256, (t4 % 256) + (t5 % 256) * 256),
         lo |-> W((t2 % 256) + (t3 % 256) * 256, (t0 % 256) + (t1 % 256) * 256)]

\* The 64-bit product aw * bw of two i64 values that came from 32-bit values,
\* a taken as signed when a_signed (else unsigned), b likewise: the product of
\* the magnitudes, negated in two's complement when the signs differ.
i64_mul(a, a_signed, b, b_signed) ==
    LET a_neg == a_signed /\ a < 0
        b_neg == b_signed /\ b < 0
        p == u64_mul(IF a_neg THEN wrapping_sub(0, a) ELSE a,
                     IF b_neg THEN wrapping_sub(0, b) ELSE b)
    IN  IF a_neg = b_neg THEN p
        ELSE [hi |-> IF p.lo = 0 THEN wrapping_sub(0, p.hi) ELSE Xor32(p.hi, -1),
              lo |-> wrapping_sub(0, p.lo)]

-----------------------------------------------------------------------------
(* The executor (exec/exec_32.rs).  An exec function takes the hart and    *)
(* yields the hart after it together with the ExecStatus it returns.       *)

Done(hart, st) == [hart |-> hart, status |-> st]

exec_binary_op(hart, rd, rs1, rs2, callback) ==
    LET a == read_int_register(hart, rs1)
        b == read_int_register(hart, rs2)
        result == callback[a, b]
    IN  Done(write_int_register(hart, rd, result), Running)

exec_binary_op_imm(hart, rd, rs1, imm, callback) ==
    LET a == read_int_register(hart, rs1)
        b == imm
        result == callback[a, b]
    IN  Done(write_int_register(hart, rd, result), Running)

exec_shift_op_imm(hart, rd, rs1, shamt, callback) ==
    LET a == read_int_register(hart, rs1)
        b == shamt
        result == callback[a, b]
    IN  Done(write_int_register(hart, rd, result), Running)

\* A branch whose target is taken from the hart's PC, which step_rv32 has
\* already advanced, instead of from the instruction's PC.
exec_branch_from_hart_pc(hart, inst, rs1, rs2, simm, callback) ==
    LET a == read_int_register(hart, rs1)
        b == read_int_register(hart, rs2)
    IN  IF callback[a, b]
        THEN LET new_pc == wrapping_add(read_pc(hart), simm)
             IN  Done(write_pc(hart, new_pc), Running)
        ELSE Done(hart, Running)

exec_branch_binary_cond(hart, inst, rs1, rs2, simm, callback) ==
    LET a == read_int_register(hart, rs1)
        b == read_int_register(hart, rs2)
    IN  IF callback[a, b]
        THEN LET new_pc == wrapping_add(inst.pc, simm)
             IN  Done(write_pc(hart, new_pc), Running)
        ELSE Done(hart, Running)

\* A load that clears rd when the bus read faults.
exec_load_mem_clearing(hart, rd, rs1, simm, callback) ==
    LET base_addr == read_int_register(hart, rs1)
        addr == wrapping_add(base_addr, simm)
        result == callback[hart.mem, addr]
    IN  IF result.ok
        THEN Done(write_int_register(hart, rd, result.v), Running)
        ELSE Done(exception(write_int_register(hart, rd, 0), as_data_load_cause(result.e)),
                  Running)

\* callback[mem, addr] is a bus read: Ok(v) or Err(e).
exec_load_mem(hart, rd, rs1, simm, callback) ==
    LET base_addr == read_int_register(hart, rs1)
        addr == wrapping_add(base_addr, simm)
        result == callback[hart.mem, addr]
    IN  IF result.ok
        THEN Done(write_int_register(hart, rd, result.v), Running)
        ELSE Done(exception(hart, as_data_load_cause(result.e)), Running)

\* A store whose write never reaches the bus.
exec_store_mem_dropped(hart, rs1, rs2, simm, callback) ==
    LET v == read_int_register(hart, rs2)
        base_addr == read_int_register(hart, rs1)
        addr == wrapping_add(base_addr, simm)
        result == callback[hart.mem, addr, v]
    IN  IF result.ok
        THEN Done(hart, Running)
        ELSE Done(exception(hart, as_data_store_cause(result.e)), Running)

\* callback[mem, addr, v] is a bus write: Ok(the bus after it) or Err(e).
exec_store_mem(hart, rs1, rs2, simm, callback) ==
    LET v == read_int_register(hart, rs2)
        base_addr == read_int_register(hart, rs1)
        addr == wrapping_add(base_addr, simm)
        result == callback[hart.mem, addr, v]
    IN  IF result.ok
        THEN Done([hart EXCEPT !.mem = result.v], Running)
        ELSE Done(exception(hart, as_data_store_cause(result.e)), Running)

\* An unimplemented operation that returns without raising the exception.
exec_unimplemented_silent(hart, inst) == [hart |-> hart, status |-> Running]

\* The 118 exec functions whose body is still `TODO: Implement`
\* (exec_amoadd_w .. exec_uret): raise IllegalInstruction and keep running.
exec_unimplemented(hart, inst) ==
    Done(exception(hart, "IllegalInstruction"), Running)

exec_add(hart, inst, rd, rs1, rs2) ==
    exec_binary_op(hart, rd, rs1, rs2, [a \in Int, b \in Int |-> wrapping_add(a, b)])

exec_addi(hart, inst, rd, rs1, simm) ==
    exec_binary_op_imm(hart, rd, rs1, simm, [a \in Int, b \in Int |-> wrapping_add(a, b)])

exec_and(hart, inst, rd, rs1, rs2) ==
    exec_binary_op(hart, rd, rs1, rs2, [a \in Int, b \in Int |-> And32(a, b)])

exec_andi(hart, inst, rd, rs1, simm) ==
    exec_binary_op_imm(hart, rd, rs1, simm, [a \in Int, b \in Int |-> And32(a, b)])

exec_auipc(hart, inst, rd, simm) ==
    LET result == wrapping_add(inst.pc, simm)
    IN  Done(write_int_register(hart, rd, result), Running)

exec_beq(hart, inst, rs1, rs2, simm) ==
    exec_branch_binary_cond(hart, inst, rs1, rs2, simm, [a \in Int, b \in Int |-> a = b])

exec_bge(hart, inst, rs1, rs2, simm) ==
    exec_branch_binary_cond(hart, inst, rs1, rs2, simm, [a \in Int, b \in Int |-> a >= b])

exec_bgeu(hart, inst, rs1, rs2, simm) ==
    exec_branch_binary_cond(hart, inst, rs1, rs2, simm, [a \in Int, b \in Int |-> ~LtU(a, b)])

exec_blt(hart, inst, rs1, rs2, simm) ==
    exec_branch_binary_cond(hart, inst, rs1, rs2, simm, [a \in Int, b \in Int |-> a < b])

exec_bltu(hart, inst, rs1, rs2, simm) ==
    exec_branch_binary_cond(hart, inst, rs1, rs2, simm, [a \in Int, b \in Int |-> LtU(a, b)])

exec_bne(hart, inst, rs1, rs2, simm) ==
    exec_branch_binary_cond(hart, inst, rs1, rs2, simm, [a \in Int, b \in Int |-> a # b])

exec_csrrs(hart, inst, rd, rs1, csr) ==
    IF rs1 = 0
    THEN LET result == Hart_read_csr(hart, csr)
         IN  IF result.ok
             THEN Done(write_int_register(hart, rd, result.v), Running)
             ELSE Done(exception(hart, "IllegalInstruction"), Running)
    ELSE Done(exception(hart, "IllegalInstruction"), Running)

exec_div(hart, inst, rd, rs1, rs2) ==
    exec_binary_op(hart, rd, rs1, rs2, [a \in Int, b \in Int |->
        LET aw == a
            bw == b
        IN  IF bw = 0 THEN -1
            ELSE IF aw = MinI32 /\ bw = -1 THEN MinI32
            ELSE i32_divrem(aw, bw).q])

\* An unsigned division that yields 0 for a zero divisor.
exec_divu_zero_for_zero_divisor(hart, inst, rd, rs1, rs2) ==
    exec_binary_op(hart, rd, rs1, rs2, [a \in Int, b \in Int |->
        IF b = 0 THEN 0 ELSE u32_divrem(a, b).q])

exec_divu(hart, inst, rd, rs1, rs2) ==
    exec_binary_op(hart, rd, rs1, rs2, [a \in Int, b \in Int |->
        LET aw == a
            bw == b
        IN  IF bw = 0 THEN -1
            ELSE u32_divrem(aw, bw).q])

exec_ebreak(hart, inst) ==
    IF ~environment_break(hart, inst.pc)
    THEN Done(hart, EnvironmentBreak(inst.pc))
    ELSE Done(hart, Running)

\* An ecall that reports the hart's PC, which step_rv32 has already advanced.
exec_ecall_at_hart_pc(hart, inst) ==
    IF ~environment_call(hart, inst.pc)
    THEN Done(hart, EnvironmentCall(read_pc(hart)))
    ELSE Done(hart, Running)

exec_ecall(hart, inst) ==
    IF ~environment_call(hart, inst.pc)
    THEN Done(hart, EnvironmentCall(inst.pc))
    ELSE Done(hart, Running)

\* Returns right after raising the exception; the addition below is dead code.
exec_fadd_d(hart, inst, frd, frs1, frs2, rm) ==
    Done(exception(hart, "IllegalInstruction"), Running)

exec_fence(hart, inst, pred, succ) == Done(fence_data(hart), Running)

exec_fence_i(hart, inst) == Done(fence_code(hart), Running)

exec_jal(hart, inst, rd, simm) ==
    LET ret_pc == wrapping_add(inst.pc, inst.length)
        linked == write_int_register(hart, rd, ret_pc)
        new_pc == wrapping_add(inst.pc, simm)
    IN  Done(write_pc(linked, new_pc), Running)

\* A jalr that takes the link value as its base when rd and rs1 are the same
\* register.
exec_jalr_from_link(hart, inst, rd, rs1, simm) ==
    LET ret_pc == wrapping_add(inst.pc, inst.length)
        base_addr == IF rd = rs1 /\ rd # 0 THEN ret_pc ELSE read_int_register(hart, rs1)
        new_pc == And32(wrapping_add(base_addr, simm),
                        W(\b1111111111111111, \b1111111111111110))
        jumped == write_pc(hart, new_pc)
    IN  Done(write_int_register(jumped, rd, ret_pc), Running)

\* A jalr that links before it reads rs1.
exec_jalr_link_first(hart, inst, rd, rs1, simm) ==
    LET ret_pc == wrapping_add(inst.pc, inst.length)
        linked == write_int_register(hart, rd, ret_pc)
        base_addr == read_int_register(linked, rs1)
        new_pc == And32(wrapping_add(base_addr, simm),
                        W(\b1111111111111111, \b1111111111111110))
    IN  Done(write_pc(linked, new_pc), Running)

exec_jalr(hart, inst, rd, rs1, simm) ==
    LET base_addr == read_int_register(hart, rs1)
        new_pc == And32(wrapping_add(base_addr, simm),
                        W(\b1111111111111111, \b1111111111111110))
        jumped == write_pc(hart, new_pc)
        ret_pc == wrapping_add(inst.pc, inst.length)
    IN  Done(write_int_register(jumped, rd, ret_pc), Running)

\* A byte load that does not sign-extend.
exec_lb_zero_extended(hart, inst, rd, rs1, simm) ==
    exec_load_mem(hart, rd, rs1, simm, [m \in {hart.mem}, addr \in Int |->
        Bus(m, addr, [a \in Int |-> Memory_read_byte(m, a)])])

exec_lb(hart, inst, rd, rs1, simm) ==
    exec_load_mem(hart, rd, rs1, simm, [m \in {hart.mem}, addr \in Int |->
        LET v == Bus(m, addr, [a \in Int |-> Memory_read_byte(m, a)])
        IN  IF v.ok THEN Ok(sign_extend(v.v, 8)) ELSE v])

exec_lbu(hart, inst, rd, rs1, simm) ==
    exec_load_mem(hart, rd, rs1, simm, [m \in {hart.mem}, addr \in Int |->
        LET v == Bus(m, addr, [a \in Int |-> Memory_read_byte(m, a)])
        IN  IF v.ok THEN Ok(v.v) ELSE v])

exec_lh(hart, inst, rd, rs1, simm) ==
    exec_load_mem(hart, rd, rs1, simm, [m \in {hart.mem}, addr \in Int |->
        LET v == Bus(m, addr, [a \in Int |-> Memory_read_halfword(m, a)])
        IN  IF v.ok THEN Ok(sign_extend(v.v, 16)) ELSE v])

exec_lhu(hart, inst, rd, rs1, simm) ==
    exec_load_mem(hart, rd, rs1, simm, [m \in {hart.mem}, addr \in Int |->
        LET v == Bus(m, addr, [a \in Int |-> Memory_read_halfword(m, a)])
        IN  IF v.ok THEN Ok(v.v) ELSE v])

exec_lui(hart, inst, rd, simm) == Done(write_int_register(hart, rd, simm), Running)

exec_lw(hart, inst, rd, rs1, simm) ==
    exec_load_mem(hart, rd, rs1, simm, [m \in {hart.mem}, addr \in Int |->
        LET v == Bus(m, addr, [a \in Int |-> Memory_read_word(m, a)])
        IN  IF v.ok THEN Ok(sign_extend(v.v, 32)) ELSE v])

exec_mul(hart, inst, rd, rs1, rs2) ==
    exec_binary_op(hart, rd, rs1, rs2, [a \in Int, b \in Int |->
        LET result == i64_mul(a, FALSE, b, FALSE)
        IN  result.lo])

exec_mulh(hart, inst, rd, rs1, rs2) ==
    exec_binary_op(hart, rd, rs1, rs2, [a \in Int, b \in Int |->
        LET result == i64_mul(a, TRUE, b, TRUE)
        IN  result.hi])

\* A Mulhsu that takes rs2 as signed too.
exec_mulhsu_signed(hart, inst, rd, rs1, rs2) ==
    exec_binary_op(hart, rd, rs1, rs2, [a \in Int, b \in Int |->
        LET result == i64_mul(a, TRUE, b, TRUE)
        IN  result.hi])

exec_mulhsu(hart, inst, rd, rs1, rs2) ==
    exec_binary_op(hart, rd, rs1, rs2, [a \in Int, b \in Int |->
        LET result == i64_mul(a, TRUE, b, FALSE)
        IN  result.hi])

exec_mulhu(hart, inst, rd, rs1, rs2) ==
    exec_binary_op(hart, rd, rs1, rs2, [a \in Int, b \in Int |->
        LET result == i64_mul(a, FALSE, b, FALSE)
        IN  result.hi])

exec_or(hart, inst, rd, rs1, rs2) ==
    exec_binary_op(hart, rd, rs1, rs2, [a \in Int, b \in Int |-> Or32(a, b)])

exec_ori(hart, inst, rd, rs1, simm) ==
    exec_binary_op_imm(hart, rd, rs1, simm, [a \in Int, b \in Int |-> Or32(a, b)])

exec_rem(hart, inst, rd, rs1, rs2) ==
    exec_binary_op(hart, rd, rs1, rs2, [a \in Int, b \in Int |->
        LET aw == a
            bw == b
        IN  IF bw = 0 THEN aw
            ELSE IF aw = MinI32 /\ bw = -1 THEN 0
            ELSE i32_divrem(aw, bw).r])

exec_remu(hart, inst, rd, rs1, rs2) ==
    exec_binary_op(hart, rd, rs1, rs2, [a \in Int, b \in Int |->
        LET aw == a
            bw == b
        IN  IF bw = 0 THEN aw
            ELSE u32_divrem(aw, bw).r])

exec_sb(hart, inst, rs1, rs2, simm) ==
    exec_store_mem(hart, rs1, rs2, simm, [m \in {hart.mem}, addr \in Int, v \in Int |->
        Bus(m, addr, [a \in Int |-> Memory_write_byte(m, a, as_u8(v))])])

exec_sfence_vma(hart, inst, rs1, rs2) ==
    Done(fence_virtual_memory_config(hart, rs1, rs2), Running)

exec_sh(hart, inst, rs1, rs2, simm) ==
    exec_store_mem(hart, rs1, rs2, simm, [m \in {hart.mem}, addr \in Int, v \in Int |->
        Bus(m, addr, [a \in Int |-> Memory_write_halfword(m, a, as_u16(v))])])

exec_sll(hart, inst, rd, rs1, rs2) ==
    exec_binary_op(hart, rd, rs1, rs2, [a \in Int, b \in Int |->
        LET shamt == And32(b, \b11111)
        IN  Shl32(a, shamt)])

exec_slli(hart, inst, rd, rs1, shamt) ==
    exec_shift_op_imm(hart, rd, rs1, shamt, [a \in Int, sh \in Int |-> Shl32(a, sh)])

exec_slt(hart, inst, rd, rs1, rs2) ==
    exec_binary_op(hart, rd, rs1, rs2, [a \in Int, b \in Int |-> IF a < b THEN 1 ELSE 0])

exec_slti(hart, inst, rd, rs1, simm) ==
    exec_binary_op_imm(hart, rd, rs1, simm, [a \in Int, b \in Int |-> IF a < b THEN 1 ELSE 0])

exec_sltiu(hart, inst, rd, rs1, simm) ==
    exec_binary_op_imm(hart, rd, rs1, simm, [a \in Int, b \in Int |-> IF LtU(a, b) THEN 1 ELSE 0])

exec_sltu(hart, inst, rd, rs1, rs2) ==
    exec_binary_op(hart, rd, rs1, rs2, [a \in Int, b \in Int |-> IF LtU(a, b) THEN 1 ELSE 0])

exec_sra(hart, inst, rd, rs1, rs2) ==
    exec_binary_op(hart, rd, rs1, rs2, [a \in Int, b \in Int |->
        LET shamt == And32(b, \b11111)
        IN  Sra32(a, shamt)])

exec_srai(hart, inst, rd, rs1, shamt) ==
    exec_shift_op_imm(hart, rd, rs1, shamt, [a \in Int, sh \in Int |-> Sra32(a, sh)])

exec_srl(hart, inst, rd, rs1, rs2) ==
    exec_binary_op(hart, rd, rs1, rs2, [a \in Int, b \in Int |->
        LET shamt == And32(b, \b11111)
        IN  Srl32(a, shamt)])

exec_srli(hart, inst, rd, rs1, shamt) ==
    exec_shift_op_imm(hart, rd, rs1, shamt, [a \in Int, sh \in Int |-> Srl32(a, sh)])

exec_sub(hart, inst, rd, rs1, rs2) ==
    LET a == read_int_register(hart, rs1)
        b == read_int_register(hart, rs2)
        result == wrapping_sub(a, b)
    IN  Done(write_int_register(hart, rd, result), Running)

exec_sw(hart, inst, rs1, rs2, simm) ==
    exec_store_mem(hart, rs1, rs2, simm, [m \in {hart.mem}, addr \in Int, v \in Int |->
        Bus(m, addr, [a \in Int |-> Memory_write_word(m, a, v)])])

exec_wfi(hart, inst) == Done(hart, WaitingForInterrupt)

exec_xor(hart, inst, rd, rs1, rs2) ==
    exec_binary_op(hart, rd, rs1, rs2, [a \in Int, b \in Int |-> Xor32(a, b)])

exec_xori(hart, inst, rd, rs1, simm) ==
    exec_binary_op_imm(hart, rd, rs1, simm, [a \in Int, b \in Int |-> Xor32(a, b)])

\* The compressed operations that are implemented: each calls the exec
\* function of its base operation.
exec_c_add(hart, inst, rs1rd, rs2) == exec_add(hart, inst, rs1rd, rs1rd, rs2)
exec_c_addi(hart, inst, rs1rd, nzsimm) == exec_addi(hart, inst, rs1rd, rs1rd, nzsimm)
exec_c_addi16sp(hart, inst, rs1rd, nzsimm) == exec_addi(hart, inst, rs1rd, 2, nzsimm)
exec_c_addi4spn(hart, inst, rd, nzuimm) == exec_addi(hart, inst, rd, 2, nzuimm)
exec_c_and(hart, inst, rs1rd, rs2) == exec_and(hart, inst, rs1rd, rs1rd, rs2)
exec_c_andi(hart, inst, rs1rd, nzsimm) == exec_andi(hart, inst, rs1rd, rs1rd, nzsimm)
exec_c_beqz(hart, inst, rs1, simm) == exec_beq(hart, inst, rs1, 0, simm)
exec_c_bnez(hart, inst, rs1, simm) == exec_bne(hart, inst, rs1, 0, simm)
exec_c_ebreak(hart, inst) == exec_ebreak(hart, inst)
exec_c_li(hart, inst, rs1rd, simm) == exec_addi(hart, inst, rs1rd, 0, simm)
exec_c_lui(hart, inst, rd, nzsimm) == exec_lui(hart, inst, rd, nzsimm)
exec_c_nop(hart, inst) == Done(hart, Running)
exec_c_or(hart, inst, rs1rd, rs2) == exec_or(hart, inst, rs1rd, rs1rd, rs2)
exec_c_slli(hart, inst, rs1rd, nzuimm) == exec_slli(hart, inst, rs1rd, rs1rd, nzuimm)
exec_c_srai(hart, inst, rs1rd, nzuimm) == exec_srai(hart, inst, rs1rd, rs1rd, nzuimm)
exec_c_srli(hart, inst, rs1rd, nzuimm) == exec_srli(hart, inst, rs1rd, rs1rd, nzuimm)
exec_c_sub(hart, inst, rs1rd, rs2) == exec_sub(hart, inst, rs1rd, rs1rd, rs2)
exec_c_subw(hart, inst, rs1rd, rs2) == exec_sub(hart, inst, rs1rd, rs1rd, rs2)
exec_c_swsp(hart, inst, rs2, uimm) == exec_sw(hart, inst, 2, rs2, uimm)
exec_c_xor(hart, inst, rs1rd, rs2) == exec_xor(hart, inst, rs1rd, rs1rd, rs2)

\* The variants whose exec function is still `TODO: Implement`.
UnimplementedVariants == {
    "AmoaddW", "AmoandW", "AmomaxW", "AmomaxuW", "AmominW", "AmominuW", "AmoorW",
    "AmoswapW", "AmoxorW", "CAddw", "CFld", "CFldsp", "CFlw", "CFlwsp", "CFsd",
    "CFsdsp", "CFsw", "CFswsp", "CJ", "CJal", "CJalr", "CJr", "CLw", "CLwsp", "CMv",
    "CSw", "Csrrc", "Csrrci", "Csrrsi", "Csrrw", "Csrrwi", "Dret", "FaddQ", "FaddS",
    "FclassD", "FclassQ", "FclassS", "FcvtDQ", "FcvtDS", "FcvtDW", "FcvtDWu", "FcvtQD",
    "FcvtQS", "FcvtQW", "FcvtQWu", "FcvtSD", "FcvtSQ", "FcvtSW", "FcvtSWu", "FcvtWD",
    "FcvtWQ", "FcvtWS", "FcvtWuD", "FcvtWuQ", "FcvtWuS", "FdivD", "FdivQ", "FdivS",
    "FeqD", "FeqQ", "FeqS", "Fld", "FleD", "FleQ", "FleS", "Flq", "FltD", "FltQ",
    "FltS", "Flw", "FmaddD", "FmaddQ", "FmaddS", "FmaxD", "FmaxQ", "FmaxS", "FminD",
    "FminQ", "FminS", "FmsubD", "FmsubQ", "FmsubS", "FmulD", "FmulQ", "FmulS", "FmvSX",
    "FmvXS", "FnmaddD", "FnmaddQ", "FnmaddS", "FnmsubD", "FnmsubQ", "FnmsubS", "Fsd",
    "FsgnjD", "FsgnjQ", "FsgnjS", "FsgnjnD", "FsgnjnQ", "FsgnjnS", "FsgnjxD",
    "FsgnjxQ", "FsgnjxS", "Fsq", "FsqrtD", "FsqrtQ", "FsqrtS", "FsubD", "FsubQ",
    "FsubS", "Fsw", "Hret", "LrW", "Mret", "ScW", "SfenceVm", "Sret", "Uret" }

\* dispatch_instruction: one arm per variant, in the order of the match; the
\* default arm takes Invalid.
dispatch_instruction(inst, hart) ==
    LET op == inst.op
    IN  CASE op.variant = "Add" -> exec_add(hart, inst, op.rd, op.rs1, op.rs2)
          [] op.variant = "Addi" -> exec_addi(hart, inst, op.rd, op.rs1, op.simm)
          [] op.variant = "And" -> exec_and(hart, inst, op.rd, op.rs1, op.rs2)
          [] op.variant = "Andi" -> exec_andi(hart, inst, op.rd, op.rs1, op.simm)
          [] op.variant = "Auipc" -> exec_auipc(hart, inst, op.rd, op.simm)
          [] op.variant = "Beq" -> exec_beq(hart, inst, op.rs1, op.rs2, op.simm)
          [] op.variant = "Bge" -> exec_bge(hart, inst, op.rs1, op.rs2, op.simm)
          [] op.variant = "Bgeu" -> exec_bgeu(hart, inst, op.rs1, op.rs2, op.simm)
          [] op.variant = "Blt" -> exec_blt(hart, inst, op.rs1, op.rs2, op.simm)
          [] op.variant = "Bltu" -> exec_bltu(hart, inst, op.rs1, op.rs2, op.simm)
          [] op.variant = "Bne" -> exec_bne(hart, inst, op.rs1, op.rs2, op.simm)
          [] op.variant = "CAdd" -> exec_c_add(hart, inst, op.rs1rd, op.rs2)
          [] op.variant = "CAddi" -> exec_c_addi(hart, inst, op.rs1rd, op.nzsimm)
          [] op.variant = "CAddi16Sp" -> exec_c_addi16sp(hart, inst, op.rs1rd, op.nzsimm)
          [] op.variant = "CAddi4Spn" -> exec_c_addi4spn(hart, inst, op.rd, op.nzuimm)
          [] op.variant = "CAnd" -> exec_c_and(hart, inst, op.rs1rd, op.rs2)
          [] op.variant = "CAndi" -> exec_c_andi(hart, inst, op.rs1rd, op.nzsimm)
          [] op.variant = "CBeqz" -> exec_c_beqz(hart, inst, op.rs1, op.simm)
          [] op.variant = "CBnez" -> exec_c_bnez(hart, inst, op.rs1, op.simm)
          [] op.variant = "CEbreak" -> exec_c_ebreak(hart, inst)
          [] op.variant = "CLi" -> exec_c_li(hart, inst, op.rs1rd, op.simm)
          [] op.variant = "CLui" -> exec_c_lui(hart, inst, op.rd, op.nzsimm)
          [] op.variant = "CNop" -> exec_c_nop(hart, inst)
          [] op.variant = "COr" -> exec_c_or(hart, inst, op.rs1rd, op.rs2)
          [] op.variant = "CSlli" -> exec_c_slli(hart, inst, op.rs1rd, op.nzuimm)
          [] op.variant = "CSrai" -> exec_c_srai(hart, inst, op.rs1rd, op.nzuimm)
          [] op.variant = "CSrli" -> exec_c_srli(hart, inst, op.rs1rd, op.nzuimm)
          [] op.variant = "CSub" -> exec_c_sub(hart, inst, op.rs1rd, op.rs2)
          [] op.variant = "CSubw" -> exec_c_subw(hart, inst, op.rs1rd, op.rs2)
          [] op.variant = "CSwsp" -> exec_c_swsp(hart, inst, op.rs2, op.uimm)
          [] op.variant = "CXor" -> exec_c_xor(hart, inst, op.rs1rd, op.rs2)
          [] op.variant = "Csrrs" -> exec_csrrs(hart, inst, op.rd, op.rs1, op.csr)
          [] op.variant = "Div" -> exec_div(hart, inst, op.rd, op.rs1, op.rs2)
          [] op.variant = "Divu" -> exec_divu(hart, inst, op.rd, op.rs1, op.rs2)
          [] op.variant = "Ebreak" -> exec_ebreak(hart, inst)
          [] op.variant = "Ecall" -> exec_ecall(hart, inst)
          [] op.variant = "FaddD" -> exec_fadd_d(hart, inst, op.frd, op.frs1, op.frs2, op.rm)
          [] op.variant = "Fence" -> exec_fence(hart, inst, op.pred, op.succ)
          [] op.variant = "FenceI" -> exec_fence_i(hart, inst)
          [] op.variant = "Jal" -> exec_jal(hart, inst, op.rd, op.simm)
          [] op.variant = "Jalr" -> exec_jalr(hart, inst, op.rd, op.rs1, op.simm)
          [] op.variant = "Lb" -> exec_lb(hart, inst, op.rd, op.rs1, op.simm)
          [] op.variant = "Lbu" -> exec_lbu(hart, inst, op.rd, op.rs1, op.simm)
          [] op.variant = "Lh" -> exec_lh(hart, inst, op.rd, op.rs1, op.simm)
          [] op.variant = "Lhu" -> exec_lhu(hart, inst, op.rd, op.rs1, op.simm)
          [] op.variant = "Lui" -> exec_lui(hart, inst, op.rd, op.simm)
          [] op.variant = "Lw" -> exec_lw(hart, inst, op.rd, op.rs1, op.simm)
          [] op.variant = "Mul" -> exec_mul(hart, inst, op.rd, op.rs1, op.rs2)
          [] op.variant = "Mulh" -> exec_mulh(hart, inst, op.rd, op.rs1, op.rs2)
          [] op.variant = "Mulhsu" -> exec_mulhsu(hart, inst, op.rd, op.rs1, op.rs2)
          [] op.variant = "Mulhu" -> exec_mulhu(hart, inst, op.rd, op.rs1, op.rs2)
          [] op.variant = "Or" -> exec_or(hart, inst, op.rd, op.rs1, op.rs2)
          [] op.variant = "Ori" -> exec_ori(hart, inst, op.rd, op.rs1, op.simm)
          [] op.variant = "Rem" -> exec_rem(hart, inst, op.rd, op.rs1, op.rs2)
          [] op.variant = "Remu" -> exec_remu(hart, inst, op.rd, op.rs1, op.rs2)
          [] op.variant = "Sb" -> exec_sb(hart, inst, op.rs1, op.rs2, op.simm)
          [] op.variant = "SfenceVma" -> exec_sfence_vma(hart, inst, op.rs1, op.rs2)
          [] op.variant = "Sh" -> exec_sh(hart, inst, op.rs1, op.rs2, op.simm)
          [] op.variant = "Sll" -> exec_sll(hart, inst, op.rd, op.rs1, op.rs2)
          [] op.variant = "Slli" -> exec_slli(hart, inst, op.rd, op.rs1, op.shamt)
          [] op.variant = "Slt" -> exec_slt(hart, inst, op.rd, op.rs1, op.rs2)
          [] op.variant = "Slti" -> exec_slti(hart, inst, op.rd, op.rs1, op.simm)
          [] op.variant = "Sltiu" -> exec_sltiu(hart, inst, op.rd, op.rs1, op.simm)
          [] op.variant = "Sltu" -> exec_sltu(hart, inst, op.rd, op.rs1, op.rs2)
          [] op.variant = "Sra" -> exec_sra(hart, inst, op.rd, op.rs1, op.rs2)
          [] op.variant = "Srai" -> exec_srai(hart, inst, op.rd, op.rs1, op.shamt)
          [] op.variant = "Srl" -> exec_srl(hart, inst, op.rd, op.rs1, op.rs2)
          [] op.variant = "Srli" -> exec_srli(hart, inst, op.rd, op.rs1, op.shamt)
          [] op.variant = "Sub" -> exec_sub(hart, inst, op.rd, op.rs1, op.rs2)
          [] op.variant = "Sw" -> exec_sw(hart, inst, op.rs1, op.rs2, op.simm)
          [] op.variant = "Wfi" -> exec_wfi(hart, inst)
          [] op.variant = "Xor" -> exec_xor(hart, inst, op.rd, op.rs1, op.rs2)
          [] op.variant = "Xori" -> exec_xori(hart, inst, op.rd, op.rs1, op.simm)
          [] op.variant \in UnimplementedVariants -> exec_unimplemented(hart, inst)
          [] OTHER -> Done(exception(hart, "IllegalInstruction"), Running)

\* The panics an exec function can reach.  `aw / bw` and `aw % bw` on i32
\* panic for a zero divisor and for MinI32 / -1; exec_div and exec_rem return
\* before the operator in both cases.
exec_div_unguarded_panics(aw, bw) == bw = 0 \/ (aw = MinI32 /\ bw = -1)

exec_div_panics(aw, bw) ==
    IF bw = 0 THEN FALSE
    ELSE IF aw = MinI32 /\ bw = -1 THEN FALSE
    ELSE bw = 0 \/ (aw = MinI32 /\ bw = -1)

\* Whether dispatch_instruction(inst, hart) panics: a register selector above
\* 31 (IntRegister::numbered, and the index into the register arrays), a CSR
\* number above 4095 (ControlStatusRegister::numbered in exec_csrrs), a shift
\* by 32 or more or a product outside i64 (builds with overflow checks), a
\* division that panics.
dispatch_panics(inst, hart) ==
    LET op == inst.op
        entries == {i \in DOMAIN DecodeTable : DecodeTable[i].variant = op.variant}
        fields == IF entries = {} THEN <<>> ELSE DecodeTable[CHOOSE i \in entries : TRUE].fields
        a == IF "rs1" \in DOMAIN op THEN read_int_register(hart, op.rs1) ELSE 0
        b == IF "rs2" \in DOMAIN op THEN read_int_register(hart, op.rs2) ELSE 0
        v == op.variant
        product == u64_mul(IF a < 0 THEN wrapping_sub(0, a) ELSE a,
                           IF v = "Mulh" /\ b < 0 THEN wrapping_sub(0, b) ELSE b)
    IN  \/ \E n \in DOMAIN fields :
            Extractors[fields[n][2]].ret = "register" /\ op[fields[n][1]] > 31
        \/ v = "Csrrs" /\ op.rs1 = 0 /\ op.csr >= 4096
        \/ v \in {"Sll", "Srl", "Sra"} /\ And32(b, 31) > 31
        \/ v \in {"Slli", "Srli", "Srai"} /\ op.shamt > 31
        \/ v \in {"CSlli", "CSrli", "CSrai"} /\ op.nzuimm > 31
        \/ v \in {"Mulh", "Mulhsu"} /\ product.hi < 0 /\ ~(product.hi = MinI32 /\ product.lo = 0)
        \/ v \in {"Div", "Rem"} /\ exec_div_panics(a, b)
        \/ v \in {"Divu", "Remu"} /\ (IF b = 0 THEN FALSE ELSE b = 0)

\* Instruction::decode_raw(raw, pc): the operation with the address it was
\* fetched at and its length.
decode_raw(raw, at) ==
    [op |-> decode_from_raw(raw), pc |-> at, length |-> raw_length(raw)]

\* step_rv32: fetch, decode, advance the PC by the decoded length, dispatch;
\* a fetch fault raises an exception instead.
step_rv32(hart) ==
    LET at == read_pc(hart)
        raw_inst_result == Bus(hart.mem, at, [a \in Int |-> Memory_read_word(hart.mem, a)])
    IN  IF raw_inst_result.ok
        THEN LET inst == decode_raw(raw_inst_result.v, at)
                 advanced == write_pc(hart, wrapping_add(at, inst.length))
             IN  dispatch_instruction(inst, advanced)
        ELSE LET e == raw_inst_result.e
                 cause == CASE e = "Misaligned" -> "InstructionAddressMisaligned"
                            [] e = "AccessFault" -> "InstructionPageFault"
                            [] e = "PageFault" -> "InstructionPageFault"
             IN  Done(exception(hart, cause), Running)

-----------------------------------------------------------------------------
(* The inputs: program images, bus stacks, and the values a driver writes  *)

\* The first word of the image a driver loads, by family of programs.
Programs == [
    \* Register writes, most of them to x0.
    Zero |-> {
        W(\b0000000001010000, \b0000000000010011),   \* addi x0, x0, 5
        W(\b1111111111010000, \b1000000010010011),   \* addi x1, x1, -3
        W(\b0000000000100000, \b1000000000110011),   \* add x0, x1, x2
        W(\b0100000000100000, \b1000000100110011),   \* sub x2, x1, x2
        W(\b1000000000000000, \b0001000000110111),   \* lui x0, 0x80001
        W(\b1111111111111111, \b1111000000010111),   \* auipc x0, 0xfffff
        W(\b1111111111011111, \b1111000001101111),   \* jal x0, -4
        W(\b0000000001000001, \b0000000001100111),   \* jalr x0, 4(x2)
        W(\b0000000010010000, \b1000000000000011),   \* lb x0, 9(x1)
        W(\b0000001000100000, \b1101000000110011),   \* divu x0, x1, x2
        W(\b0000000000000000, \b0000000000010101)    \* c.addi x0, 5 in the low parcel
    },
    \* Conditional branches.
    Branch |-> {
        W(\b0000000000100000, \b1000010001100011),   \* beq x1, x2, +8
        W(\b0000000000100000, \b1001010001100011),   \* bne x1, x2, +8
        W(\b0000000000100000, \b1100010001100011),   \* blt x1, x2, +8
        W(\b0000000000100000, \b1101010001100011),   \* bge x1, x2, +8
        W(\b0000000000100000, \b1110010001100011),   \* bltu x1, x2, +8
        W(\b0000000000100000, \b1111010001100011),   \* bgeu x1, x2, +8
        W(\b1111111000100000, \b1000110011100011),   \* beq x1, x2, -8
        W(\b1000000000100000, \b1110000001100011),   \* bltu x1, x2, -4096
        W(\b0111111000000000, \b0101111111100011)    \* bge x0, x0, +4094
    },
    \* Jumps.
    Jump |-> {
        W(\b0000000010000000, \b0000000011101111),   \* jal x1, +8
        W(\b1111111111011111, \b1111000001101111),   \* jal x0, -4
        W(\b0111111111111111, \b1111000101101111),   \* jal x2, +1048574
        W(\b0000000001010000, \b1000000101100111),   \* jalr x2, 5(x1)
        W(\b1111111111110000, \b1000000011100111),   \* jalr x1, -1(x1)
        W(\b0000000001000001, \b0000000001100111)    \* jalr x0, 4(x2)
    },
    \* Loads.
    Load |-> {
        W(\b0000000010010000, \b1000000100000011),   \* lb x2, 9(x1)
        W(\b0000000010000000, \b1001000100000011),   \* lh x2, 8(x1)
        W(\b0000000010000000, \b1010000100000011),   \* lw x2, 8(x1)
        W(\b0000000010010000, \b1100000100000011),   \* lbu x2, 9(x1)
        W(\b0000000010000000, \b1101000100000011),   \* lhu x2, 8(x1)
        W(\b1111111110100000, \b1010000100000011),   \* lw x2, -6(x1)
        W(\b0000000010110001, \b0001000010000011),   \* lh x1, 11(x2)
        W(\b1111111110110000, \b1100000010000011)    \* lbu x1, -5(x1)
    },
    \* Division and remainder.
    Div |-> {
        W(\b0000001000100000, \b1100000010110011),   \* div x1, x1, x2
        W(\b0000001000100000, \b1101000010110011),   \* divu x1, x1, x2
        W(\b0000001000100000, \b1110000010110011),   \* rem x1, x1, x2
        W(\b0000001000100000, \b1111000010110011),   \* remu x1, x1, x2
        W(\b0000001000010001, \b0100000100110011),   \* div x2, x2, x1
        W(\b0000001000010000, \b1110000100110011)    \* rem x2, x1, x1
    },
    \* Environment calls, fences, and a CSR read.
    System |-> {
        W(\b0000000000000000, \b0000000001110011),   \* ecall
        W(\b0000000000010000, \b0000000001110011),   \* ebreak
        W(\b0001000001010000, \b0000000001110011),   \* wfi
        W(\b0001001000100000, \b1000000001110011),   \* sfence.vma x1, x2
        W(\b0000111111110000, \b0000000000001111),   \* fence
        W(\b0000000000000000, \b0001000000001111),   \* fence.i
        W(\b0000010000100000, \b0010000111110011)    \* csrrs x3, ucause, x0: the CSR is not supported
    },
    \* Words that raise IllegalInstruction, and a load and a store that do not.
    Error |-> {
        W(\b1111111111111111, \b1111111111111111),   \* no instruction: decodes to Invalid
        W(\b0000000000100000, \b1010000110101111),   \* amoadd.w x3, x2, (x1): not implemented
        W(\b0000000001010000, \b1001000111110011),   \* csrrw x3, utvec, x1: not implemented
        W(\b0000010000100000, \b0010000111110011),   \* csrrs x3, ucause, x0: the CSR is not supported
        W(\b0000000001010000, \b1010000111110011),   \* csrrs x3, utvec, x1
        W(\b0000001000100000, \b1111000111010011),   \* fadd.d f3, f1, f2: not implemented
        W(\b0000000010000000, \b1010000100000011),   \* lw x2, 8(x1)
        W(\b0000000000100000, \b1010001100100011)    \* sw x2, 6(x1)
    },
    \* The program of a hart that is driven through its own operations.
    Hart |-> {
        W(\b0000000000000000, \b0000000001110011)    \* ecall
    },
    \* Any instruction; the fetch is what matters.
    Fetch |-> {
        W(\b0000000000000000, \b0000000001110011),   \* ecall
        W(\b1111111111010000, \b1000000010010011)    \* addi x1, x1, -3
    },
    \* Every load and store, for the buses that fault.
    Fault |-> {
        W(\b0000000010010000, \b1000000100000011),   \* lb x2, 9(x1)
        W(\b0000000010000000, \b1001000100000011),   \* lh x2, 8(x1)
        W(\b0000000010000000, \b1010000100000011),   \* lw x2, 8(x1)
        W(\b0000000010010000, \b1100000100000011),   \* lbu x2, 9(x1)
        W(\b0000000010000000, \b1101000100000011),   \* lhu x2, 8(x1)
        W(\b0000000000100000, \b1000001100100011),   \* sb x2, 6(x1)
        W(\b0000000000100000, \b1001001100100011),   \* sh x2, 6(x1)
        W(\b0000000000100000, \b1010001100100011)    \* sw x2, 6(x1)
    }
]

\* The first word of an image that begins with a compressed arithmetic
\* instruction: the 16-bit instruction in the low parcel, a zero parcel above.
CompressedPrograms == {
    W(\b0000000000000000, \b1001010000100110),   \* c.add x8, x9
    W(\b0000000000000000, \b1001000100100010),   \* c.add x2, x8
    W(\b0000000000000000, \b1001010000100010),   \* c.add x8, x8
    W(\b0000000000000000, \b0001010001110101),   \* c.addi x8, -3
    W(\b0000000000000000, \b0000010011111101),   \* c.addi x9, 31
    W(\b0000000000000000, \b0111000100000001),   \* c.addi16sp -512
    W(\b0000000000000000, \b0110000101111101),   \* c.addi16sp 496
    W(\b0000000000000000, \b0111000101001101),   \* c.addi16sp -336
    W(\b0000000000000000, \b0001111111100100),   \* c.addi4spn x9, 1020
    W(\b0000000000000000, \b0001001101000000),   \* c.addi4spn x8, 420
    W(\b0000000000000000, \b0000000001011100),   \* c.addi4spn x15, 4
    W(\b0000000000000000, \b1000110001100101),   \* c.and x8, x9
    W(\b0000000000000000, \b1000110001000101),   \* c.or x8, x9
    W(\b0000000000000000, \b1000110000100101),   \* c.xor x8, x9
    W(\b0000000000000000, \b1000110000000101),   \* c.sub x8, x9
    W(\b0000000000000000, \b1000110010000101),   \* c.sub x9, x9
    W(\b0000000000000000, \b1001100001110001),   \* c.andi x8, -4
    W(\b0000000000000000, \b1000100011010101),   \* c.andi x9, 21
    W(\b0000000000000000, \b0101010000000001),   \* c.li x8, -32
    W(\b0000000000000000, \b0100010010010101),   \* c.li x9, 5
    W(\b0000000000000000, \b0110010001111101),   \* c.lui x8, 0x1f
    W(\b0000000000000000, \b0111010010000001),   \* c.lui x9, 0xfffe0
    W(\b0000000000000000, \b0110010000000101),   \* c.lui x8, 1
    W(\b0000000000000000, \b1000010000100110),   \* c.mv x8, x9
    W(\b0000000000000000, \b1000010010001010),   \* c.mv x9, x2
    W(\b0000000000000000, \b0000010000001110),   \* c.slli x8, 3
    W(\b0000000000000000, \b0000010011111110)    \* c.slli x9, 31
}

\* The first word of an image that begins with a compressed branch or jump.
CompressedJumps == {
    W(\b0000000000000000, \b1100000000011001),   \* c.beqz x8, +6
    W(\b0000000000000000, \b1101000000000001),   \* c.beqz x8, -256
    W(\b0000000000000000, \b1100110011111101),   \* c.beqz x9, +254
    W(\b0000000000000000, \b1110000000011001),   \* c.bnez x8, +6
    W(\b0000000000000000, \b1111110001111101),   \* c.bnez x8, -2
    W(\b0000000000000000, \b1110010011001101),   \* c.bnez x9, +170
    W(\b0000000000000000, \b1010000000100001),   \* c.j +8
    W(\b0000000000000000, \b1011000000000001),   \* c.j -2048
    W(\b0000000000000000, \b1010111111111101),   \* c.j +2046
    W(\b0000000000000000, \b1011010001101101),   \* c.j -1366
    W(\b0000000000000000, \b0010000000100001),   \* c.jal +8
    W(\b0000000000000000, \b0011111111111101),   \* c.jal -2
    W(\b0000000000000000, \b0010101110010001),   \* c.jal +1364
    W(\b0000000000000000, \b1000000010000010),   \* c.jr x1
    W(\b0000000000000000, \b1000010000000010),   \* c.jr x8
    W(\b0000000000000000, \b1001000010000010),   \* c.jalr x1
    W(\b0000000000000000, \b1001010000000010)    \* c.jalr x8
}

\* The first word of an image that begins with a CSR instruction.
CsrPrograms == {
    W(\b0000000001010001, \b0001000011110011),   \* csrrw x1, utvec, x2
    W(\b0000010000100000, \b0010000011110011),   \* csrrs x1, ucause, x0
    W(\b0000000000010001, \b0010000011110011),   \* csrrs x1, fflags, x2
    W(\b0000000000100001, \b0011000011110011),   \* csrrc x1, frm, x2
    W(\b1111111111110010, \b1101000011110011),   \* csrrwi x1, 0xfff, 5
    W(\b1100000000000000, \b0110000011110011),   \* csrrsi x1, cycle, 0
    W(\b0000000000001111, \b1111000101110011),   \* csrrci x2, ustatus, 31
    W(\b0000010000010000, \b0010000101110011),   \* csrrs x2, uepc, x0
    W(\b0000010000000000, \b1001000001110011),   \* csrrw x0, uscratch, x1
    W(\b0000000001011111, \b1101000001110011)    \* csrrwi x0, utvec, 31
}

\* Program words whose bytes 1..3, with the first byte of the tail, are an
\* instruction of their own: addi x1, x0, 1840 and addi x2, x0, 1840.
MisalignedPrograms == {
    W(\b0000000000000000, \b1001001100010011),   \* slli x6, x1, 0
    W(\b0000000000000001, \b0001001110010011)    \* addi x6, x2, 0
}

\* The first word of an image that begins with a multiplication.
MulPrograms == {
    W(\b0000001000100000, \b1000000110110011),   \* mul x3, x1, x2
    W(\b0000001000100000, \b1001000110110011),   \* mulh x3, x1, x2
    W(\b0000001000100000, \b1010000110110011),   \* mulhsu x3, x1, x2
    W(\b0000001000100000, \b1011000110110011),   \* mulhu x3, x1, x2
    W(\b0000001000100000, \b1000000010110011),   \* mul x1, x1, x2
    W(\b0000001000100000, \b1010000100110011),   \* mulhsu x2, x1, x2
    W(\b0000001000100000, \b1001000000110011),   \* mulh x0, x1, x2
    W(\b0000001000100001, \b0011000010110011)    \* mulhu x1, x2, x2
}

\* The first word of an image that begins with a CSR instruction on uscratch.
StoredCsrPrograms == {
    W(\b0000010000000001, \b0001000011110011),   \* csrrw x1, uscratch, x2
    W(\b0000010000000001, \b0010000011110011),   \* csrrs x1, uscratch, x2
    W(\b0000010000000001, \b0011000011110011),   \* csrrc x1, uscratch, x2
    W(\b0000010000000010, \b1101000011110011),   \* csrrwi x1, uscratch, 5
    W(\b0000010000000010, \b1110000011110011),   \* csrrsi x1, uscratch, 5
    W(\b0000010000000010, \b1111000011110011),   \* csrrci x1, uscratch, 5
    W(\b0000010000000000, \b0010000011110011),   \* csrrs x1, uscratch, x0
    W(\b0000010000000000, \b1001000011110011)    \* csrrw x1, uscratch, x1
}

\* The first word of an image that begins with a shift by a register.
ShiftPrograms == {
    W(\b0000000000100000, \b1001000010110011),   \* sll x1, x1, x2
    W(\b0000000000100000, \b1101000010110011),   \* srl x1, x1, x2
    W(\b0100000000100000, \b1101000010110011)    \* sra x1, x1, x2
}

\* Programs of two instructions, the second of which reads what the first
\* wrote: a register, a byte of memory, or the second instruction itself.
OrderPrograms == {
    <<W(\b0000000001010000, \b1000000010010011),      \* addi x1, x1, 5
      W(\b0000000000010000, \b1000000100110011)>>,    \* add x2, x1, x1
    <<W(\b0000000000100000, \b1000010010100011),      \* sb x2, 9(x1)
      W(\b0000000010010000, \b1100000100000011)>>,    \* lbu x2, 9(x1)
    <<W(\b0000000000100000, \b1010010000100011),      \* sw x2, 8(x1)
      W(\b0000000010110000, \b1000000100000011)>>,    \* lb x2, 11(x1)
    <<W(\b0000000000100000, \b1001001100100011),      \* sh x2, 6(x1)
      W(\b0000000000010000, \b0000000100010011)>>,    \* addi x2, x0, 1
    <<W(\b0000000000100000, \b1010001000100011),      \* sw x2, 4(x1)
      W(\b0000000000010000, \b0000000100010011)>>    \* addi x2, x0, 1
}

\* What follows the first word in every image: ecall, a data word, ebreak.
ImageTail == <<
    W(\b0000000000000000, \b0000000001110011),
    W(\b1000000000000000, \b1111111101111111),
    W(\b0000000000010000, \b0000000001110011)
>>

\* The image of a program word: the word, then the tail.
Image(word) == <<word>> \o ImageTail

\* The host buffer holding an image: its words, least significant byte first,
\* and zero bytes up to MemLen.
Buffer(image) ==
    [i \in 0..(MemLen - 1) |->
        IF i < 4 * Len(image) THEN Bits(image[(i \div 4) + 1], 8 * (i % 4), 8) ELSE 0]

\* Memory::new_ram / Memory::new_rom behind the two adapters.
new_ram(buf, callback) == [buf |-> buf, writable |-> TRUE, callback |-> callback]
new_rom(buf, callback) == [buf |-> buf, writable |-> FALSE, callback |-> callback]

\* The bus stacks of each family: "None" is RAM behind the driver's callback,
\* "Rom" is ROM behind it, and a fault kind is RAM behind a callback that
\* answers that fault outside the buffer.
BusKinds == [
    Zero |-> {"None"}, Branch |-> {"None"}, Jump |-> {"None"}, Load |-> {"None"},
    Div |-> {"None"}, System |-> {"None"}, Error |-> {"None"}, Hart |-> {"None"},
    Fetch |-> {"None", "Misaligned", "AccessFault", "PageFault"},
    Fault |-> {"Misaligned", "AccessFault", "PageFault", "Rom"} ]

\* The bus stacks a hart of a family is built on.
Buses(family) ==
    {IF kind = "Rom" THEN new_rom(Buffer(Image(w)), [fault |-> "None"])
                     ELSE new_ram(Buffer(Image(w)), [fault |-> kind]) :
        w \in Programs[family], kind \in BusKinds[family]}

\* The values a driver writes to registers; a register holds 0 until it is
\* written.
RegValues == {-1, 2, 7, MinI32}

\* The number of steps a driver takes before it ends its session.
MaxSteps == 2

-----------------------------------------------------------------------------
(* The state machine                                                       *)

\* The hart as one value.
Hart ==
    [pc |-> pc, int_regs |-> int_regs, float_regs |-> float_regs,
     csrs |-> csrs, mem |-> mem]

\* The hart after an operation.
HartBecomes(hart) ==
    /\ pc' = hart.pc
    /\ int_regs' = hart.int_regs
    /\ float_regs' = hart.float_regs
    /\ csrs' = hart.csrs
    /\ mem' = hart.mem

\* What the step at hand fetches and decodes, as the driver prints it before
\* it steps, together with the hart it steps: the fetch fault, or the decoded
\* instruction.
Fetched(hart) ==
    LET r == Bus(hart.mem, hart.pc, [a \in Int |-> Memory_read_word(hart.mem, a)])
    IN  IF r.ok THEN [event |-> "step", fault |-> "None", inst |-> decode_raw(r.v, hart.pc),
                      before |-> hart]
        ELSE [event |-> "step", fault |-> r.e, inst |-> [pc |-> hart.pc], before |-> hart]

\* SingleThreadUserHart::new(bus) for a program of one of the families,
\* nothing stepped yet.
InitOf(families) ==
    /\ \E family \in families : \E bus \in Buses(family) :
        LET hart == new(bus)
        IN  /\ pc = hart.pc
            /\ int_regs = hart.int_regs
            /\ float_regs = hart.float_regs
            /\ csrs = hart.csrs
            /\ mem = hart.mem
    /\ status = [tag |-> "None"]
    /\ last = [event |-> "new"]
    /\ steps = 0

\* The programs that run on RAM behind the driver's callback.
Init == InitOf({"Zero", "Branch", "Jump", "Load", "Div", "System"})

\* The driver calls step_rv32(hart), at most MaxSteps times.
Step ==
    /\ steps < MaxSteps
    /\ LET r == step_rv32(Hart)
       IN  HartBecomes(r.hart) /\ status' = r.status
    /\ last' = Fetched(Hart)
    /\ steps' = steps + 1

\* The driver calls hart.write_int_register(reg, v) for x0, x1 or x2.
WriteIntRegister ==
    /\ steps < MaxSteps
    /\ \E reg \in {0, 1, 2}, v \in RegValues :
        /\ HartBecomes(write_int_register(Hart, reg, v))
        /\ last' = [event |-> "write_int_register", reg |-> reg]
    /\ UNCHANGED <<status, steps>>

\* The driver calls hart.write_pc(start_pc).
WritePc ==
    /\ steps < MaxSteps
    /\ HartBecomes(write_pc(Hart, start_pc))
    /\ last' = [event |-> "write_pc"]
    /\ UNCHANGED <<status, steps>>

\* The driver calls hart.write_int_register(reg, v) for the stack pointer or
\* one of the registers x8 and x9 that the three-bit register fields name.
WriteArithRegister ==
    /\ steps < MaxSteps
    /\ \E reg \in {2, 8, 9}, v \in RegValues :
        /\ HartBecomes(write_int_register(Hart, reg, v))
        /\ last' = [event |-> "write_int_register", reg |-> reg]
    /\ UNCHANGED <<status, steps>>

\* The driver calls hart.write_int_register(reg, v) for the link register or
\* x8, with a value to test or to jump to.
WriteJumpRegister ==
    /\ steps < MaxSteps
    /\ \E reg \in {1, 8}, v \in RegValues \cup {0} :
        /\ HartBecomes(write_int_register(Hart, reg, v))
        /\ last' = [event |-> "write_int_register", reg |-> reg]
    /\ UNCHANGED <<status, steps>>

\* The CSR numbers a caller passes in every state: ustatus, fflags, frm,
\* utvec, uscratch, uepc, ucause, cycle and the last number.
CsrSample == {0, 1, 2, 5, 64, 65, 66, 3072, 4095}

\* Every CSR number: ControlStatusRegister::numbered accepts 0..4095.
CsrNumbers == 0..4095

\* A caller reads a CSR through hart.read_csr(reg): a session that only
\* probes the hart as constructed asks for any CSR number and ends; later
\* calls ask for the sampled ones.
ReadCsr ==
    /\ steps < MaxSteps
    /\ last.event \notin {"read_csr", "write_csr"}
    /\ \E reg \in IF last.event = "new" THEN CsrNumbers ELSE CsrSample :
        LET r == read_csr(Hart, reg)
        IN  last' = [event |-> "read_csr", reg |-> reg, ok |-> r.ok,
                     e |-> IF r.ok THEN "None" ELSE r.e, before |-> Hart]
    /\ steps' = IF last.event = "new" THEN MaxSteps ELSE steps
    /\ UNCHANGED <<pc, int_regs, float_regs, csrs, mem, status>>

\* A caller writes a CSR through hart.write_csr(reg, v).
WriteCsr ==
    /\ steps < MaxSteps
    /\ last.event \notin {"read_csr", "write_csr"}
    /\ \E reg \in IF last.event = "new" THEN CsrNumbers ELSE CsrSample, v \in {7} :
        LET r == write_csr(Hart, reg, v)
        IN  /\ HartBecomes(IF r.ok THEN r.v ELSE Hart)
            /\ last' = [event |-> "write_csr", reg |-> reg, ok |-> r.ok,
                        e |-> IF r.ok THEN "None" ELSE r.e, before |-> Hart]
    /\ steps' = IF last.event = "new" THEN MaxSteps ELSE steps
    /\ UNCHANGED status

\* The addresses a caller hands to write_pc: the start of the image, the
\* three addresses after it and the first halfword after that.
PcValues == {start_pc, start_pc + 1, start_pc + 2, start_pc + 3, start_pc + 4}

\* A caller calls hart.write_pc(v) with any of these addresses.
WriteAnyPc ==
    /\ steps < MaxSteps
    /\ \E v \in PcValues :
        /\ HartBecomes(write_pc(Hart, v))
        /\ last' = [event |-> "write_any_pc", v |-> v]
    /\ UNCHANGED <<status, steps>>

\* The operands of a multiplication: 0, 1, small and large values of both
\* signs, the two ends of the signed range.
MulValues == {0, 1, -1, 2, 7, MinI32, MaxI32, W(4660, 22136), -65535, 65536}

\* Before the first step the driver calls hart.write_int_register(reg, v)
\* for x1 or x2 with a multiplication operand.
WriteMulOperand ==
    /\ steps = 0
    /\ \E reg \in {1, 2}, v \in MulValues :
        /\ HartBecomes(write_int_register(Hart, reg, v))
        /\ last' = [event |-> "write_int_register", reg |-> reg]
    /\ UNCHANGED <<status, steps>>

\* A caller writes uscratch through hart.write_csr(reg, v), on a hart whose
\* write_csr works for it.
WriteStoredCsr ==
    /\ steps < MaxSteps
    /\ \E v \in RegValues :
        LET r == Hart_write_csr(Hart, 64, v)
        IN  /\ r.ok
            /\ HartBecomes(r.v)
            /\ last' = [event |-> "write_csr", reg |-> 64, ok |-> r.ok,
                        e |-> "None", before |-> Hart]
    /\ UNCHANGED <<status, steps>>

\* Registers (register.rs) and the CPU that owns one (cpu.rs).  The storage
\* `int` is held in int_regs, the CPU's memory in mem and its pc in pc.

\* Registers::new: 32 slots of zero.
Registers_new == [i \in 0..31 |-> 0]

\* Registers::read_int: zero for register 0, else the slot.
Registers_read_int(int, reg) == IF reg = 0 THEN 0 ELSE int[reg]

\* Registers::write_int: the test for register 0 has an empty body, and the
\* assignment to the slot follows it in every case.
Registers_write_int(int, reg, v) == [int EXCEPT ![reg] = v]

\* CPU::new(memory).
CPU_new(memory) == [memory |-> memory, registers |-> Registers_new, pc |-> 0]

\* A caller calls cpu.write_int_register(reg, v), which calls
\* registers.write_int(reg, v).
CpuWriteIntRegister ==
    /\ \E reg \in {0, 1, 31}, v \in RegValues :
        /\ int_regs' = Registers_write_int(int_regs, reg, v)
        /\ last' = [event |-> "write_int", reg |-> reg, v |-> v, before |-> int_regs]
    /\ UNCHANGED <<pc, float_regs, csrs, mem, status, steps>>

\* A caller calls cpu.read_int_register(reg), which calls
\* registers.read_int(reg).
CpuReadIntRegister ==
    /\ \E reg \in {0, 1, 31} :
        last' = [event |-> "read_int", reg |-> reg,
                 v |-> Registers_read_int(int_regs, reg), before |-> int_regs]
    /\ UNCHANGED <<pc, int_regs, float_regs, csrs, mem, status, steps>>

\* The CPU after CPU::new on a RAM; it has no float registers, CSRs or
\* execution status.
InitCpu ==
    /\ \E bus \in Buses("Zero") :
        LET cpu == CPU_new(bus)
        IN  /\ pc = cpu.pc
            /\ int_regs = cpu.registers
            /\ mem = cpu.memory
    /\ float_regs = <<>>
    /\ csrs = <<>>
    /\ status = [tag |-> "None"]
    /\ last = [event |-> "new"]
    /\ steps = 0

\* The raw words at the ends of an entry of the decode table: its pattern
\* with the bits outside its mask (within the 16-bit parcel, for a compressed
\* entry) all 0 and all 1.
BoundaryEncodings(i) ==
    LET e == DecodeTable[i]
        free == IF e.fam = "Compressed" THEN And32(-1 - e.mask, 65535) ELSE -1 - e.mask
    IN  {e.want, Or32(e.want, free)}

\* The first words of the images step_rv32 is tried on: the boundary words of
\* every entry, and the divisions, multiplications and shifts by a register.
TotalWords ==
    UNION {BoundaryEncodings(i) : i \in DOMAIN DecodeTable}
        \cup Programs.Div \cup MulPrograms \cup ShiftPrograms

\* ExecStatus has no such variant: the step unwound with a panic.
Panicked == [tag |-> "Panic"]

\* Before the first step the driver calls hart.write_int_register(reg, v)
\* for x1 or x2 with an operand at which a division or a shift would go
\* wrong: -1 or the most negative value.
WriteEdgeOperand ==
    /\ steps = 0
    /\ \E reg \in {1, 2}, v \in {-1, MinI32} :
        /\ HartBecomes(write_int_register(Hart, reg, v))
        /\ last' = [event |-> "write_int_register", reg |-> reg]
    /\ UNCHANGED <<status, steps>>

\* The driver calls step_rv32(hart); a panic inside it unwinds and leaves the
\* hart as the step found it.
StepOrPanic ==
    /\ steps < MaxSteps
    /\ LET f == Fetched(Hart)
           r == IF f.fault = "None" /\ dispatch_panics(f.inst, Hart)
                THEN Done(Hart, Panicked) ELSE step_rv32(Hart)
       IN  HartBecomes(r.hart) /\ status' = r.status
    /\ last' = Fetched(Hart)
    /\ steps' = steps + 1

Next == Step \/ WriteIntRegister \/ WritePc

\* A hart whose read_csr and write_csr work for uscratch (CSR 0x040),
\* constructed like SingleThreadUserHart on one of the given bus stacks, the
\* CSR 0.
InitStoredCsr(buses) ==
    /\ \E bus \in buses :
        LET hart == new(bus)
        IN  /\ pc = hart.pc
            /\ int_regs = hart.int_regs
            /\ float_regs = hart.float_regs
            /\ csrs = [f \in DOMAIN hart.csrs \cup {"csr_file"} |->
                          IF f = "csr_file" THEN (64 :> 0) ELSE hart.csrs[f]]
            /\ mem = hart.mem
    /\ status = [tag |-> "None"]
    /\ last = [event |-> "new"]
    /\ steps = 0

\* SingleThreadUserHart::new(bus) on one of the given bus stacks.
InitOn(buses) ==
    /\ \E bus \in buses :
        LET hart == new(bus)
        IN  /\ pc = hart.pc
            /\ int_regs = hart.int_regs
            /\ float_regs = hart.float_regs
            /\ csrs = hart.csrs
            /\ mem = hart.mem
    /\ status = [tag |-> "None"]
    /\ last = [event |-> "new"]
    /\ steps = 0

\* A session of the driver on a program in RAM.
Spec == Init /\ [][Next]_vars

\* A session on a bus stack that can fault, or on a word that is no
\* implemented instruction.
SpecFault == InitOf({"Error", "Fetch", "Fault"}) /\ [][Next]_vars

\* A session on an image that begins with a compressed arithmetic
\* instruction.
SpecCompressed ==
    /\ InitOn({new_ram(Buffer(Image(w)), [fault |-> "None"]) : w \in CompressedPrograms})
    /\ [][Step \/ WriteArithRegister \/ WritePc]_vars

\* A session on an image that begins with a compressed branch or jump.
SpecCompressedJump ==
    /\ InitOn({new_ram(Buffer(Image(w)), [fault |-> "None"]) : w \in CompressedJumps})
    /\ [][Step \/ WriteJumpRegister \/ WritePc]_vars

\* A session on an image that begins with a CSR instruction, with calls of
\* read_csr and write_csr in between.
SpecCsr ==
    /\ InitOn({new_ram(Buffer(Image(w)), [fault |-> "None"]) : w \in CsrPrograms})
    /\ [][Step \/ WriteIntRegister \/ WritePc \/ ReadCsr \/ WriteCsr]_vars

\* A session in which the caller sets the PC to any address of the first
\* words of the image.
SpecMisaligned ==
    /\ InitOn({new_ram(Buffer(Image(w)), [fault |-> "None"]) : w \in MisalignedPrograms})
    /\ [][Step \/ WriteIntRegister \/ WriteAnyPc]_vars

\* A session on an image that begins with a multiplication.
SpecMul ==
    /\ InitOn({new_ram(Buffer(Image(w)), [fault |-> "None"]) : w \in MulPrograms})
    /\ [][Step \/ WriteMulOperand \/ WritePc]_vars

\* A session of a hart with a working uscratch, on an image that begins with a
\* CSR instruction on uscratch.
SpecStoredCsr ==
    /\ InitStoredCsr({new_ram(Buffer(Image(w)), [fault |-> "None"]) : w \in StoredCsrPrograms})
    /\ [][Step \/ WriteIntRegister \/ WriteStoredCsr]_vars

\* Any sequence of register reads and writes on a CPU.
SpecCpu == InitCpu /\ [][CpuWriteIntRegister \/ CpuReadIntRegister]_vars

\* A session on an image that begins with any of the boundary words.
SpecTotal ==
    /\ InitOn({new_ram(Buffer(Image(w)), [fault |-> "None"]) : w \in TotalWords})
    /\ [][StepOrPanic \/ WriteEdgeOperand]_vars

\* A session on a program of two instructions in RAM.
SpecOrder ==
    /\ InitOn({new_ram(Buffer(program \o ImageTail), [fault |-> "None"]) :
                  program \in OrderPrograms})
    /\ [][Next]_vars

\* The methods called on an adapter, and the data a write passes: a byte,
\* a halfword and a word that differ from the image.
Methods ==
    {"read_byte", "read_halfword", "read_word",
     "write_byte", "write_halfword", "write_word"}

\* The addresses passed to an adapter: inside the driver's window, outside
\* it, below 2^16, and above 2^16.
AdapterAddrs == {start_pc, start_pc + 5, start_pc + 20, 3, 65539}

\* The wrapped bus of an adapter under test: the Memory m, which also reports
\* the address it was called with.
WrappedMemory(m, method, data) ==
    [a \in Int |-> [r |-> Memory_method(m, method, a, data), seen |-> a]]

\* What a call on an adapter over WrappedMemory did: the result it returned,
\* the addresses that reached the wrapped bus, and the memory afterwards.
Outcome(m, method, res) ==
    LET reached == "seen" \in DOMAIN res
        r == IF reached THEN res.r ELSE res
        writes == method \in {"write_byte", "write_halfword", "write_word"}
    IN  [result |-> IF r.ok THEN [ok |-> TRUE, e |-> "None", v |-> IF writes THEN 0 ELSE r.v]
                    ELSE [ok |-> FALSE, e |-> r.e, v |-> 0],
         seen |-> IF reached THEN <<res.seen>> ELSE <<>>,
         mem |-> IF reached /\ writes /\ r.ok THEN r.v ELSE m]

\* A method of AddressTransformer<u32, Memory, Callback> is called.
TransformerAccess ==
    /\ steps < MaxSteps
    /\ \E method \in Methods, addr \in AdapterAddrs :
        LET data == CASE method = "write_byte" -> 171
                      [] method = "write_halfword" -> 43981
                      [] OTHER -> 16909060
            o == Outcome(mem, method,
                     AddressTransformer(mem.callback, addr, WrappedMemory(mem, method, data)))
        IN  /\ mem' = o.mem
            /\ last' = [event |-> "transformer", method |-> method, addr |-> addr,
                        data |-> data, callback |-> translate_address(mem.callback, addr),
                        result |-> o.result, seen |-> o.seen, before |-> mem]
    /\ steps' = steps + 1
    /\ UNCHANGED <<pc, int_regs, float_regs, csrs, status>>

\* A method of AddressConverter<u32, Inside, Memory> is called, Inside being
\* a usize of 16 bits or of 64 bits.
ConverterAccess ==
    /\ steps < MaxSteps
    /\ \E method \in Methods, addr \in AdapterAddrs, inside_bits \in {16, 64} :
        LET data == CASE method = "write_byte" -> 171
                      [] method = "write_halfword" -> 43981
                      [] OTHER -> 16909060
            o == Outcome(mem, method,
                     AddressConverter(inside_bits, addr, WrappedMemory(mem, method, data)))
        IN  /\ mem' = o.mem
            /\ last' = [event |-> "converter", method |-> method, addr |-> addr,
                        data |-> data, inside_bits |-> inside_bits,
                        result |-> o.result, seen |-> o.seen, before |-> mem]
    /\ steps' = steps + 1
    /\ UNCHANGED <<pc, int_regs, float_regs, csrs, status>>

\* Every u16 low parcel.
Parcels == 0..65535

\* instruction_length is called on a low parcel.
InstructionLength ==
    /\ last.event = "new"
    /\ \E low_parcel \in Parcels :
        last' = [event |-> "instruction_length", low_parcel |-> low_parcel,
                 length |-> instruction_length(low_parcel)]
    /\ UNCHANGED <<pc, int_regs, float_regs, csrs, mem, status, steps>>

\* The raw words an immediate is extracted from: every value of bits 31:20,
\* every value of bits 31:25 with bits 11:7, and every value of bits 19:12,
\* each with all the other bits 0 and with all of them 1.
RawWords ==
    {W(k * 16, 0) : k \in 0..4095} \cup
    {W(k * 16 + 15, 65535) : k \in 0..4095} \cup
    {W((k \div 32) * 512, (k % 32) * 128) : k \in 0..4095} \cup
    {W((k \div 32) * 512 + 511, (k % 32) * 128 + 61567) : k \in 0..4095} \cup
    {W(k \div 16, (k % 16) * 4096) : k \in 0..255} \cup
    {W(65520 + (k \div 16), (k % 16) * 4096 + 4095) : k \in 0..255}

\* RawInstruction::new(raw), and the five immediates extracted from it.
ExtractImmediates ==
    /\ last.event = "new"
    /\ \E raw \in RawWords :
        last' = [event |-> "immediates", raw |-> raw,
                 imm12 |-> extract(raw, "imm12"),
                 simm12 |-> extract(raw, "simm12"),
                 sbimm12 |-> extract(raw, "sbimm12"),
                 imm20 |-> extract(raw, "imm20"),
                 jimm20 |-> extract(raw, "jimm20")]
    /\ UNCHANGED <<pc, int_regs, float_regs, csrs, mem, status, steps>>

\* OperationRV32::decode_from_raw is called on a raw word that carries the
\* pattern of an entry of the table.
DecodeFromRaw ==
    /\ last.event = "new"
    /\ \E i \in DOMAIN DecodeTable :
        \E raw \in Encodings(i) :
            last' = [event |-> "decode", entry |-> i, raw |-> raw,
                     op |-> decode_from_raw(raw)]
    /\ UNCHANGED <<pc, int_regs, float_regs, csrs, mem, status, steps>>

\* The usize addresses a caller of Memory uses: inside the buffer, at its end,
\* beyond it, and at the top of the address space (-1 is usize::MAX).
UsizeAddrs == {0, 15, 30, -16, -1}

\* The caller writes a value of 1, 2, 4, 8 or 16 bytes to the Memory.  After a
\* panic the caller is gone.
MemoryWrite ==
    /\ steps < MaxSteps
    /\ ~(last.event # "new" /\ last.result.e = "Panic")
    /\ \E width \in {1, 2, 4, 8, 16}, addr \in UsizeAddrs, overflow_checks \in BOOLEAN :
        LET data == [s \in 1..width |-> 8 * width + s]
            r == Memory_write(mem, width, addr, data, overflow_checks)
        IN  /\ mem' = IF r.ok \/ r.e = "Panic" THEN r.v ELSE mem
            /\ last' = [event |-> "write", width |-> width, addr |-> addr, data |-> data,
                        result |-> [ok |-> r.ok, e |-> IF r.ok THEN "None" ELSE r.e],
                        before |-> mem]
    /\ steps' = steps + 1
    /\ UNCHANGED <<pc, int_regs, float_regs, csrs, status>>

\* The caller reads a value of 1, 2, 4, 8 or 16 bytes from the Memory; wrote
\* is the value that the access just before it wrote at the same address
\* with the same width, if there was one.
MemoryRead ==
    /\ steps < MaxSteps
    /\ ~(last.event # "new" /\ last.result.e = "Panic")
    /\ \E width \in {1, 2, 4, 8, 16}, addr \in UsizeAddrs, overflow_checks \in BOOLEAN :
        LET r == Memory_read(mem, width, addr, overflow_checks)
        IN  last' = [event |-> "read", width |-> width, addr |-> addr,
                     overflow_checks |-> overflow_checks,
                     result |-> [ok |-> r.ok, e |-> IF r.ok THEN "None" ELSE r.e],
                     v |-> IF r.ok THEN r.v ELSE <<>>,
                     wrote |-> IF /\ last.event = "write" /\ last.result.ok
                                  /\ last.width = width /\ last.addr = addr
                               THEN last.data ELSE <<>>]
    /\ steps' = steps + 1
    /\ UNCHANGED <<pc, int_regs, float_regs, csrs, mem, status>>

\* An adapter over a RAM or a ROM holding the image; the callback of the
\* transformer is the driver's, or one that answers a fault outside the
\* buffer.
SpecAdapter ==
    /\ InitOn({new_ram(Buffer(ImageTail), [fault |-> kind]) :
                  kind \in {"None", "Misaligned", "AccessFault", "PageFault"}}
              \cup {new_rom(Buffer(ImageTail), [fault |-> "None"])})
    /\ [][TransformerAccess \/ ConverterAccess]_vars

\* instruction_length on every low parcel.
SpecLength ==
    /\ InitOn({new_ram(Buffer(ImageTail), [fault |-> "None"])})
    /\ [][InstructionLength]_vars

\* The immediate extractors on every raw word of RawWords.
SpecImmediates ==
    /\ InitOn({new_ram(Buffer(ImageTail), [fault |-> "None"])})
    /\ [][ExtractImmediates]_vars

\* decode_from_raw on the encodings of every entry of the table.
SpecDecode ==
    /\ InitOn({new_ram(Buffer(ImageTail), [fault |-> "None"])})
    /\ [][DecodeFromRaw]_vars

\* Reads and writes of a caller that holds a Memory, RAM or ROM, itself.
SpecMemory ==
    /\ InitOn({new_ram(Buffer(ImageTail), [fault |-> "None"]),
               new_rom(Buffer(ImageTail), [fault |-> "None"])})
    /\ [][MemoryWrite \/ MemoryRead]_vars

\* The caller raises hart.exception(cause) directly.
Exception ==
    /\ steps < MaxSteps
    /\ \E cause \in DOMAIN ExceptionCause :
        /\ HartBecomes(exception(Hart, cause))
        /\ last' = [event |-> "exception", cause |-> cause, before |-> Hart]
    /\ UNCHANGED <<status, steps>>

\* The caller writes 1.5 to f0 or f1, as the hart's own test does.
WriteFloatRegister ==
    /\ steps < MaxSteps
    /\ \E reg \in {0, 1} :
        /\ HartBecomes(write_float_register(Hart, reg, 3))
        /\ last' = [event |-> "write_float_register", reg |-> reg]
    /\ UNCHANGED <<status, steps>>

\* The caller resets the hart with some cause.
Reset ==
    /\ steps < MaxSteps
    /\ \E cause \in RegValues :
        /\ HartBecomes(reset(Hart, cause))
        /\ last' = [event |-> "reset", cause |-> cause, before |-> Hart]
    /\ UNCHANGED <<status, steps>>

NextHart == Exception \/ WriteIntRegister \/ WriteFloatRegister \/ WritePc \/ Reset

\* Calls of the hart's own operations, exception and reset included, on a
\* fresh hart.
SpecHart == InitOf({"Hart"}) /\ [][NextHart]_vars

\* A session of steps, exceptions and resets on an image that begins with a
\* CSR instruction.
SpecVector ==
    /\ InitOn({new_ram(Buffer(Image(w)), [fault |-> "None"]) : w \in CsrPrograms})
    /\ [][Step \/ Exception \/ Reset \/ WritePc]_vars

-----------------------------------------------------------------------------
(* Properties                                                              *)

\* C1: in every state reachable by write_int_register calls and step_rv32
\* steps, read_int_register(x0) returns 0: a write to integer register 0,
\* direct or as the rd of an executed instruction, is discarded.
C1_RegisterZeroReadsZero == read_int_register(Hart, 0) = 0

\* C1 happens: the driver has written a non-zero value to x0 after a step that
\* executed addi x0, x0, 5 at start_pc.
C1_Witness ==
    /\ last = [event |-> "write_int_register", reg |-> 0]
    /\ steps = 1
    /\ pc = wrapping_add(start_pc, 4)
    /\ mem.buf = Buffer(Image(W(\b0000000001010000, \b0000000000010011)))

\* C2: step_rv32 never reports a failure: when the fetch faults on the bus,
\* the decoder yields Invalid, the operation is not implemented, a CSR is not
\* supported, or a load or store faults on the bus, the step returns Running,
\* ucause holds the code of an exception of that kind (an Instruction* cause
\* for a fetch fault, IllegalInstruction for the decoder and the operation,
\* a Load* or Store* cause for a load or a store), and the PC is the trap
\* vector base utvec & ~0b11.
C2_StepNeverFails ==
    last.event = "step" =>
        LET b == last.before
            fetch_fault == last.fault # "None"
            variant == IF fetch_fault THEN "None" ELSE last.inst.op.variant
            illegal == variant \in {"Invalid", "Csrrs", "FaddD", "SfenceVma"} \cup UnimplementedVariants
            is_load == variant \in {"Lb", "Lbu", "Lh", "Lhu", "Lw"}
            is_store == variant \in {"Sb", "Sh", "Sw"}
            addr == wrapping_add(b.int_regs[last.inst.op.rs1], last.inst.op.simm)
            data_fault ==
                /\ is_load \/ is_store
                /\ \/ ~translate_address(b.mem.callback, addr).ok
                   \/ is_store /\ ~b.mem.writable
            causes == IF fetch_fault THEN {0, 1, 12}
                      ELSE IF illegal THEN {2}
                      ELSE IF is_load THEN {4, 5, 13} ELSE {6, 7, 15}
        IN  fetch_fault \/ illegal \/ data_fault =>
                /\ status = Running
                /\ csrs.ucause \in causes
                /\ pc = And32(b.csrs.utvec, -4)

\* C2 happens: a step that started away from the trap vector decoded
\* amoadd.w, which is not implemented, and ended at the trap vector with
\* ucause = IllegalInstruction.
C2_Witness ==
    /\ last.event = "step"
    /\ last.fault = "None"
    /\ last.inst.op.variant = "AmoaddW"
    /\ last.before.pc = start_pc
    /\ status = Running /\ csrs.ucause = 2 /\ pc = 0

\* C3: when the fetch read_word(PC) returns a bus fault, step_rv32 raises the
\* Instruction* cause of the same kind (Misaligned: 0, AccessFault: 1,
\* PageFault: 12) and returns Running.
C3_FetchFaultCause ==
    last.event = "step" /\ last.fault # "None" =>
        /\ status = Running
        /\ csrs.ucause = (CASE last.fault = "Misaligned" -> 0
                            [] last.fault = "AccessFault" -> 1
                            [] last.fault = "PageFault" -> 12)

\* C4: a bus fault during Lb/Lbu/Lh/Lhu/Lw records the Load* cause of the
\* fault's kind (Misaligned: 4, AccessFault: 5, PageFault: 13), a bus fault
\* during Sb/Sh/Sw the Store* cause of its kind (6, 7, 15); neither records an
\* Instruction* cause.
C4_DataFaultCause ==
    last.event = "step" /\ last.fault = "None" =>
        LET b == last.before
            variant == last.inst.op.variant
            is_load == variant \in {"Lb", "Lbu", "Lh", "Lhu", "Lw"}
            is_store == variant \in {"Sb", "Sh", "Sw"}
            addr == wrapping_add(b.int_regs[last.inst.op.rs1], last.inst.op.simm)
            translated == translate_address(b.mem.callback, addr)
            kind == IF ~translated.ok THEN translated.e
                    ELSE IF is_store /\ ~b.mem.writable THEN "AccessFault"
                    ELSE "None"
            load_code == [Misaligned |-> 4, AccessFault |-> 5, PageFault |-> 13]
            store_code == [Misaligned |-> 6, AccessFault |-> 7, PageFault |-> 15]
        IN  (is_load \/ is_store) /\ kind # "None" =>
                /\ csrs.ucause = IF is_load THEN load_code[kind] ELSE store_code[kind]
                /\ csrs.ucause \notin {0, 1, 12}

\* C4 happens: sh faulted with PageFault in the address callback and ucause
\* is StorePageFault.
C4_Witness ==
    /\ last.event = "step"
    /\ last.fault = "None"
    /\ last.inst.op.variant = "Sh"
    /\ mem.callback.fault = "PageFault"
    /\ last.before.int_regs[1] = 7
    /\ csrs.ucause = 15

\* C5: a step that executes Beq/Bne/Blt/Bge/Bltu/Bgeu fetched at address pc
\* leaves the PC at pc + B-immediate (modulo 2^32) when the condition holds on
\* rs1 and rs2 (Blt/Bge signed, Bltu/Bgeu unsigned) and at pc + length when it
\* does not, and changes no register and no byte of memory.
C5_BranchNextPc ==
    last.event = "step" /\ last.fault = "None" =>
        LET b == last.before
            inst == last.inst
            variant == inst.op.variant
        IN  variant \in {"Beq", "Bne", "Blt", "Bge", "Bltu", "Bgeu"} =>
                LET x == b.int_regs[inst.op.rs1]
                    y == b.int_regs[inst.op.rs2]
                    below == IF (x < 0) = (y < 0) THEN x < y ELSE y < 0
                    holds == CASE variant = "Beq" -> x = y
                               [] variant = "Bne" -> x # y
                               [] variant = "Blt" -> x < y
                               [] variant = "Bge" -> x >= y
                               [] variant = "Bltu" -> below
                               [] variant = "Bgeu" -> ~below
                IN  /\ pc = IF holds THEN wrapping_add(inst.pc, inst.op.simm)
                                     ELSE wrapping_add(inst.pc, inst.length)
                    /\ int_regs = b.int_regs
                    /\ float_regs = b.float_regs
                    /\ mem = b.mem

\* C5 happens: bltu x1, x2, -4096 fetched at start_pc was taken with x1 = 7
\* and x2 = -1 (unsigned 0xFFFFFFFF), and the target wrapped below zero.
C5_Witness ==
    /\ last.event = "step"
    /\ last.fault = "None"
    /\ last.inst.op.variant = "Bltu"
    /\ last.inst.op.simm = -4096
    /\ last.inst.pc = start_pc
    /\ last.before.int_regs[1] = 7
    /\ last.before.int_regs[2] = -1
    /\ pc = MaxI32 - 4095

\* C6: a step that executes Jal fetched at pc writes pc + length to rd and
\* leaves the PC at pc + J-immediate (modulo 2^32); a step that executes Jalr
\* fetched at pc writes pc + length to rd and leaves the PC at (rs1 +
\* I-immediate) with bit 0 cleared, rs1 being read before rd is written.  A
\* write to register 0 is discarded.
C6_JumpAndLink ==
    last.event = "step" /\ last.fault = "None" =>
        LET b == last.before
            inst == last.inst
            variant == inst.op.variant
        IN  variant \in {"Jal", "Jalr"} =>
                LET rd == inst.op.rd
                    ret_pc == wrapping_add(inst.pc, inst.length)
                    sum == wrapping_add(b.int_regs[inst.op.rs1], inst.op.simm)
                IN  /\ int_regs = [b.int_regs EXCEPT ![rd] = IF rd = 0 THEN 0 ELSE ret_pc]
                    /\ pc = IF variant = "Jal" THEN wrapping_add(inst.pc, inst.op.simm)
                            ELSE sum - (sum % 2)

\* C6 happens: jalr x1, -1(x1) fetched at start_pc with x1 = 2 jumped to
\* (2 - 1) & ~1 = 0 and linked start_pc + 4 into x1.
C6_Witness ==
    /\ last.event = "step"
    /\ last.fault = "None"
    /\ last.inst.op.variant = "Jalr"
    /\ last.inst.op.rd = 1
    /\ last.inst.op.rs1 = 1
    /\ last.inst.pc = start_pc
    /\ last.before.int_regs[1] = 2
    /\ pc = 0
    /\ int_regs[1] = start_pc + 4

\* C7: a load whose bus read does not fault reads at (rs1 + sign-extended
\* offset) modulo 2^32 and writes to rd the byte sign-extended (Lb) or
\* zero-extended (Lbu), the little-endian halfword sign-extended (Lh) or
\* zero-extended (Lhu), or the little-endian word (Lw); no other register
\* changes.  A write to register 0 is discarded.
C7_LoadValue ==
    last.event = "step" /\ last.fault = "None" =>
        LET b == last.before
            inst == last.inst
            variant == inst.op.variant
        IN  variant \in {"Lb", "Lbu", "Lh", "Lhu", "Lw"} =>
                LET rd == inst.op.rd
                    addr == wrapping_add(b.int_regs[inst.op.rs1], inst.op.simm)
                    translated == translate_address(b.mem.callback, addr)
                    byte == [i \in 0..3 |-> b.mem.buf[BufIndex(translated.v, i, MemLen)]]
                    half == byte[0] + 256 * byte[1]
                    loaded == CASE variant = "Lb" -> IF byte[0] >= 128 THEN byte[0] - 256 ELSE byte[0]
                                [] variant = "Lbu" -> byte[0]
                                [] variant = "Lh" -> IF half >= 32768 THEN half - 65536 ELSE half
                                [] variant = "Lhu" -> half
                                [] variant = "Lw" -> W(byte[2] + 256 * byte[3], half)
                IN  translated.ok =>
                        int_regs = [b.int_regs EXCEPT ![rd] = IF rd = 0 THEN 0 ELSE loaded]

\* C7 happens: lb x2, 9(x1) with x1 = start_pc read the byte 0xFF of the image
\* and wrote -1 to x2.
C7_Witness ==
    /\ last.event = "step"
    /\ last.fault = "None"
    /\ last.inst.op.variant = "Lb"
    /\ last.before.int_regs[1] = start_pc
    /\ last.before.mem.buf[9] = 255
    /\ int_regs[2] = -1

\* C8: Div and Divu by 0 write all-ones (-1 as a word) to rd, Rem and Remu by
\* 0 write the dividend, Div of INT_MIN by -1 writes INT_MIN and Rem of INT_MIN
\* by -1 writes 0; for every other operand pair quotient * divisor + remainder
\* is the dividend without overflow, with a remainder smaller in magnitude
\* than the divisor that is zero or has the dividend's sign (the quotient
\* truncates toward zero); the step records no exception cause and returns
\* Running.
C8_DivRem ==
    last.event = "step" /\ last.fault = "None" =>
        LET b == last.before
            inst == last.inst
            variant == inst.op.variant
        IN  variant \in {"Div", "Divu", "Rem", "Remu"} /\ inst.op.rd # 0 =>
                LET x == b.int_regs[inst.op.rs1]
                    y == b.int_regs[inst.op.rs2]
                    result == int_regs[inst.op.rd]
                    NegAbs(v) == IF v > 0 THEN -v ELSE v
                    below(v, w) == IF (v < 0) = (w < 0) THEN v < w ELSE w < 0
                    Signed(q, r) ==
                        /\ r = 0 \/ (r < 0) = (x < 0)
                        /\ NegAbs(r) > NegAbs(y)
                        /\ q * y + r = x
                    Unsigned(q, r) ==
                        /\ below(r, y)
                        /\ u64_mul(q, y).hi = 0
                        /\ ~below(x, u64_mul(q, y).lo)
                        /\ wrapping_add(u64_mul(q, y).lo, r) = x
                IN  /\ status = Running
                    /\ csrs = b.csrs
                    /\ int_regs = [b.int_regs EXCEPT ![inst.op.rd] = result]
                    /\ CASE variant = "Div" ->
                              IF y = 0 THEN result = -1
                              ELSE IF x = MinI32 /\ y = -1 THEN result = MinI32
                              ELSE Signed(result, x - result * y)
                         [] variant = "Rem" ->
                              IF y = 0 THEN result = x
                              ELSE IF x = MinI32 /\ y = -1 THEN result = 0
                              ELSE /\ result = 0 \/ (result < 0) = (x < 0)
                                   /\ Signed((x - result) \div y, result)
                         [] variant = "Divu" ->
                              IF y = 0 THEN result = -1
                              ELSE Unsigned(result, wrapping_sub(x, u64_mul(result, y).lo))
                         [] variant = "Remu" ->
                              IF y = 0 THEN result = x
                              ELSE /\ ~below(x, result)
                                   /\ Unsigned(u32_divrem(wrapping_sub(x, result), y).q, result)

\* C8 happens: div x1, x1, x2 with x1 = INT_MIN and x2 = -1 wrote INT_MIN.
C8_Witness ==
    /\ last.event = "step"
    /\ last.fault = "None"
    /\ last.inst.op.variant = "Div"
    /\ last.inst.op.rd = 1
    /\ last.before.int_regs[1] = MinI32
    /\ last.before.int_regs[2] = -1
    /\ int_regs[1] = MinI32
    /\ status = Running

\* C9: a step that executes Ecall (Ebreak) fetched at address pc returns
\* EnvironmentCall(pc) (EnvironmentBreak(pc)), leaves the hart PC at pc + 4,
\* and leaves every CSR, the cause included, as it was.
C9_EnvironmentCallStatus ==
    last.event = "step" /\ last.fault = "None" =>
        LET b == last.before
            inst == last.inst
            variant == inst.op.variant
        IN  variant \in {"Ecall", "Ebreak"} =>
                /\ status = IF variant = "Ecall"
                            THEN [tag |-> "EnvironmentCall", addr |-> inst.pc]
                            ELSE [tag |-> "EnvironmentBreak", addr |-> inst.pc]
                /\ inst.pc = b.pc
                /\ pc = wrapping_add(b.pc, 4)
                /\ csrs = b.csrs

\* C9 happens: ecall fetched at start_pc returned EnvironmentCall(start_pc).
C9_Witness ==
    /\ last.event = "step"
    /\ last.fault = "None"
    /\ last.inst.op.variant = "Ecall"
    /\ last.before.pc = start_pc
    /\ status = [tag |-> "EnvironmentCall", addr |-> start_pc]
    /\ pc = start_pc + 4

\* C10: hart.exception(cause) sets the PC to utvec with its two low bits
\* cleared and ucause to the numeric code of the cause, and leaves the integer
\* registers, the float registers, every other CSR (uepc and utval included)
\* and the memory bus as they were.
C10_ExceptionFrame ==
    last.event = "exception" =>
        LET b == last.before
            code == [InstructionAddressMisaligned |-> 0, InstructionAccessFault |-> 1,
                     IllegalInstruction |-> 2, Breakpoint |-> 3,
                     LoadAddressMisaligned |-> 4, LoadAccessFault |-> 5,
                     StoreAddressMisaligned |-> 6, StoreAccessFault |-> 7,
                     ECallFromUser |-> 8, ECallFromSupervisor |-> 9,
                     ECallFromMachine |-> 11, InstructionPageFault |-> 12,
                     LoadPageFault |-> 13, StorePageFault |-> 15]
        IN  /\ pc = b.csrs.utvec - (b.csrs.utvec % 4)
            /\ csrs.ucause = code[last.cause]
            /\ \A f \in DOMAIN csrs \ {"ucause"} : csrs[f] = b.csrs[f]
            /\ DOMAIN csrs = DOMAIN b.csrs
            /\ int_regs = b.int_regs
            /\ float_regs = b.float_regs
            /\ mem = b.mem

\* C10 happens: exception(StorePageFault) on a hart whose PC was start_pc and
\* whose x1 was 7 and cause was 2: the PC is the vector base, the cause 15, and
\* x1 still 7.
C10_Witness ==
    /\ last.event = "exception"
    /\ last.cause = "StorePageFault"
    /\ last.before.pc = start_pc
    /\ last.before.csrs.ucause = 2
    /\ last.before.int_regs[1] = 7
    /\ pc = 0
    /\ csrs.ucause = 15
    /\ csrs.uepc = 0
    /\ int_regs[1] = 7

\* C11: after reset(cause), whatever the hart held before, the PC is 0, all 32
\* integer registers and all 32 float registers are zero, ucause is cause and
\* every other CSR field is zero; the memory bus is the one the hart had.
C11_ResetState ==
    last.event = "reset" =>
        /\ pc = 0
        /\ DOMAIN int_regs = 0..31 /\ \A r \in 0..31 : int_regs[r] = 0
        /\ DOMAIN float_regs = 0..31 /\ \A r \in 0..31 : float_regs[r] = 0
        /\ csrs.ucause = last.cause
        /\ DOMAIN csrs = {"ustatus", "uie", "utvec", "uscratch", "uepc", "ucause",
                          "utval", "uip", "fflags", "frm"}
        /\ \A f \in DOMAIN csrs \ {"ucause"} : csrs[f] = 0
        /\ mem = last.before.mem

\* C11 happens: reset(7) on a hart whose PC was start_pc, whose x1 was -1,
\* whose f1 was 1.5 and whose cause was 13.
C11_Witness ==
    /\ last.event = "reset"
    /\ last.cause = 7
    /\ last.before.pc = start_pc
    /\ last.before.int_regs[1] = -1
    /\ last.before.float_regs[1] = 3
    /\ last.before.csrs.ucause = 13
    /\ int_regs[1] = 0
    /\ float_regs[1] = 0
    /\ csrs.ucause = 7

\* C12: for two consecutive steps N and N+1, with nothing between them: a
\* register that Addi wrote in step N is what Add reads in step N+1; a byte
\* that Sb/Sh/Sw stored in step N is what Lb/Lbu of that address loads in step
\* N+1; and the word that step N+1 fetches and executes is assembled from the
\* bytes as step N left them, the stored ones included.
C12_ProgramOrder ==
    [][(/\ last.event = "step" /\ last.fault = "None"
        /\ last'.event = "step" /\ last'.fault = "None"
        /\ steps' = steps + 1)
       =>
       LET s0 == last.before
           i0 == last.inst.op
           i1 == last'.inst.op
           is_store == i0.variant \in {"Sb", "Sh", "Sw"}
           width == CASE i0.variant = "Sb" -> 1 [] i0.variant = "Sh" -> 2 [] i0.variant = "Sw" -> 4
           index(a) == BufIndex(wrapping_sub(a, start_pc), 0, MemLen)
           to == wrapping_add(s0.int_regs[i0.rs1], i0.simm)
           hit(a) == {j \in 0..(width - 1) : index(wrapping_add(to, j)) = index(a)}
           \* The byte at address a once step N is over.
           byte(a) == IF is_store /\ hit(a) # {}
                      THEN LET j == CHOOSE j \in hit(a) : \A k \in hit(a) : k <= j
                           IN  (s0.int_regs[i0.rs2] \div 2^(8 * j)) % 256
                      ELSE s0.mem.buf[index(a)]
           written == wrapping_add(s0.int_regs[i0.rs1], i0.simm)
           reg(r) == IF r = i0.rd /\ r # 0 THEN written ELSE s0.int_regs[r]
           from == wrapping_add(s0.int_regs[i1.rs1], i1.simm)
           raw == W(byte(wrapping_add(pc, 2)) + 256 * byte(wrapping_add(pc, 3)),
                    byte(pc) + 256 * byte(wrapping_add(pc, 1)))
       IN  /\ i0.variant = "Addi" /\ i1.variant = "Add" /\ i1.rd # 0 =>
                int_regs'[i1.rd] = wrapping_add(reg(i1.rs1), reg(i1.rs2))
           /\ is_store /\ i1.variant \in {"Lb", "Lbu"} /\ i1.rd # 0 =>
                int_regs'[i1.rd] = IF i1.variant = "Lb" /\ byte(from) >= 128
                                   THEN byte(from) - 256 ELSE byte(from)
           /\ is_store =>
                /\ decode_from_raw(raw) = i1
                /\ i1.variant = "Addi" /\ i1.rd # 0 =>
                     int_regs'[i1.rd] = wrapping_add(s0.int_regs[i1.rs1], i1.simm)
                /\ i1.variant = "Invalid" => csrs'.ucause = 2
      ]_vars

\* C12 happens: sb x2, 9(x1) at start_pc stored 7 over the zero byte at index
\* 9 and lbu x2, 9(x1), the next step, loaded 7.
C12_Witness ==
    /\ steps = 2
    /\ last.event = "step"
    /\ last.fault = "None"
    /\ last.inst.op.variant = "Lbu"
    /\ last.inst.pc = start_pc + 4
    /\ last.before.int_regs[1] = start_pc
    /\ last.before.mem.buf[9] = 7
    /\ mem.buf[8] = 115
    /\ int_regs[2] = 7

\* C13: on a RAM, for every address a, a write of 1, 2, 4, 8 or 16 bytes
\* returns without a fault, leaves byte i of the value at buffer index
\* (a + i) mod L and every other byte as it was, and a read of the same width
\* at the same address right after it returns the value written.
C13_RamWriteRead ==
    LET L == MemLen
        \* (a + i) mod L for the address a, which is 2^64 + a when a < 0.
        top32 == ((65536 % L) * (65536 % L)) % L
        top64 == (top32 * top32) % L
        index(a, i) == IF a >= 0 THEN (a + i) % L ELSE (top64 + ((a + i) % L)) % L
    IN  /\ last.event = "write" /\ last.before.writable =>
            /\ last.result.ok
            /\ \A j \in 0..(L - 1) :
                 LET from == {i \in 0..(last.width - 1) : index(last.addr, i) = j}
                 IN  IF from = {} THEN mem.buf[j] = last.before.buf[j]
                     ELSE \E i \in from : mem.buf[j] = last.data[i + 1]
        /\ last.event = "read" /\ mem.writable /\ last.wrote # <<>> =>
            last.result.ok /\ last.v = last.wrote

C15_AdapterFailsClosed ==
    LET writes == last.method \in {"write_byte", "write_halfword", "write_word"}
        forwarded(a) ==
            LET r == Memory_method(last.before, last.method, a, last.data)
            IN  /\ last.seen = <<a>>
                /\ last.result.ok = r.ok
                /\ ~r.ok => last.result.e = r.e
                /\ r.ok /\ ~writes => last.result.v = r.v
                /\ mem = IF r.ok /\ writes THEN r.v ELSE last.before
        refused(e) ==
            /\ last.result = [ok |-> FALSE, e |-> e, v |-> 0]
            /\ last.seen = <<>>
            /\ mem = last.before
    IN  /\ last.event = "transformer" =>
            IF last.callback.ok THEN forwarded(last.callback.v)
            ELSE refused(last.callback.e)
        /\ last.event = "converter" =>
            IF last.inside_bits = 64 THEN forwarded(last.addr)
            ELSE IF 0 <= last.addr /\ last.addr < 65536 THEN forwarded(last.addr)
            ELSE refused("PageFault")

\* C15 happens: after a byte write was forwarded to index 3, a word write
\* through a converter to 16-bit addresses was refused with PageFault at
\* address 65539 and reached no wrapped bus.
C15_Witness ==
    /\ last.event = "converter"
    /\ last.method = "write_word"
    /\ last.inside_bits = 16
    /\ last.addr = 65539
    /\ last.result.e = "PageFault"
    /\ last.seen = <<>>
    /\ last.before.buf[3] = 171
    /\ mem.buf[3] = 171

\* C16: for every 16-bit low parcel p, instruction_length(p) is 2 if bits
\* [1:0] are not 11; else 4 if bits [4:0] are not 11111; else 6 if bits [5:0]
\* are 011111; else 8 if bits [6:0] are 0111111; else, bits [6:0] being
\* 1111111, 10 + 2 * n with n = bits [14:12] if n is not 7, and 0 if n is 7.
C16_LengthRule ==
    last.event = "instruction_length" =>
        LET p == last.low_parcel
            n == (p \div 4096) % 8
        IN  last.length =
                IF p % 4 # 3 THEN 2
                ELSE IF p % 32 # 31 THEN 4
                ELSE IF p % 64 = 31 THEN 6
                ELSE IF p % 128 = 63 THEN 8
                ELSE IF n # 7 THEN 10 + 2 * n
                ELSE 0

\* C16 happens: the length of the reserved prefix 0111 0000 0111 1111, with
\* bit 15 set as well, was 0.
C16_Witness ==
    /\ last.event = "instruction_length"
    /\ last.low_parcel = 61567
    /\ last.length = 0

\* C17: for every variant V of OperationRV32 other than Invalid there is a raw
\* word r such that decode_from_raw(r) yields V.  V is constructed by one entry
\* of the table only, so r is among the words that carry that entry's pattern:
\* whenever a word of entry i has been decoded, some word of entry i decodes
\* to the variant of entry i, and the entries construct every variant but
\* Invalid.
C17_EveryVariantDecodes ==
    /\ OperationRV32 \ {"Invalid"} = {DecodeTable[i].variant : i \in DOMAIN DecodeTable}
    /\ last.event = "decode" =>
        \/ last.op.variant = DecodeTable[last.entry].variant
        \/ \E raw \in Encodings(last.entry) :
               decode_from_raw(raw).variant = DecodeTable[last.entry].variant

\* C18: within each opcode family, the compressed table included, no raw word
\* satisfies (raw & mask) == pattern for two different entries: a decoded word
\* matches at most one entry of the family it is routed to.
C18_EntriesDisjoint ==
    last.event = "decode" => Cardinality(MatchingEntries(last.raw)) <= 1

\* C19: a step that fetches a compressed arithmetic instruction leaves the
\* integer registers as its expanded base instruction does, raises no
\* exception, and leaves the PC 2 above the instruction: C.ADD = Add rd,rd,rs2;
\* C.ADDI = Addi rd,rd,imm; C.ADDI16SP = Addi x2,x2,imm; C.ADDI4SPN = Addi
\* rd',x2,uimm; C.AND / C.OR / C.XOR / C.SUB = And / Or / Xor / Sub rd',rd',rs2';
\* C.ANDI = Andi rd',rd',imm; C.LI = Addi rd,x0,imm; C.LUI = Lui rd,imm;
\* C.MV = Add rd,x0,rs2; C.SLLI = Slli rd,rd,shamt.  The instruction is read
\* off the parcel at the PC by the encodings of the C extension.
C19_CompressedArithmetic ==
    (last.event = "step" /\ last.fault = "None" /\ last.before.pc \in {0, start_pc}) =>
        LET b == last.before
            regs == b.int_regs
            p == b.mem.buf[0] + 256 * b.mem.buf[1]
            quadrant == p % 4
            funct3 == p \div 8192
            bit12 == (p \div 4096) % 2
            rd == (p \div 128) % 32
            rs2 == (p \div 4) % 32
            rdq == 8 + ((p \div 128) % 8)
            rs2q == 8 + ((p \div 4) % 8)
            funct2 == (p \div 1024) % 4
            imm6 == ((p \div 4) % 32) - 32 * bit12
            imm16sp == 16 * ((p \div 64) % 2) + 64 * ((p \div 32) % 2)
                         + 128 * ((p \div 8) % 4) + 32 * ((p \div 4) % 2) - 512 * bit12
            uimm4spn == 16 * ((p \div 2048) % 4) + 64 * ((p \div 128) % 16)
                          + 4 * ((p \div 64) % 2) + 8 * ((p \div 32) % 2)
            none == [rd |-> 0, v |-> 0, is |-> FALSE]
            to(r, v) == [rd |-> r, v |-> v, is |-> TRUE]
            base ==
                CASE quadrant = 0 /\ funct3 = 0 /\ uimm4spn # 0 ->
                        to(rdq, wrapping_add(regs[2], uimm4spn))
                  [] quadrant = 1 /\ funct3 = 0 /\ rd # 0 ->
                        to(rd, wrapping_add(regs[rd], imm6))
                  [] quadrant = 1 /\ funct3 = 2 /\ rd # 0 -> to(rd, imm6)
                  [] quadrant = 1 /\ funct3 = 3 /\ rd = 2 /\ imm16sp # 0 ->
                        to(2, wrapping_add(regs[2], imm16sp))
                  [] quadrant = 1 /\ funct3 = 3 /\ rd \notin {0, 2} /\ imm6 # 0 ->
                        to(rd, imm6 * 4096)
                  [] quadrant = 1 /\ funct3 = 4 /\ funct2 = 2 ->
                        to(rdq, And32(regs[rdq], imm6))
                  [] quadrant = 1 /\ funct3 = 4 /\ funct2 = 3 /\ bit12 = 0 ->
                        to(rdq, CASE (p \div 32) % 4 = 0 -> wrapping_sub(regs[rdq], regs[rs2q])
                                  [] (p \div 32) % 4 = 1 -> Xor32(regs[rdq], regs[rs2q])
                                  [] (p \div 32) % 4 = 2 -> Or32(regs[rdq], regs[rs2q])
                                  [] OTHER -> And32(regs[rdq], regs[rs2q]))
                  [] quadrant = 2 /\ funct3 = 0 /\ rd # 0 /\ bit12 = 0 ->
                        to(rd, Shl32(regs[rd], rs2))
                  [] quadrant = 2 /\ funct3 = 4 /\ bit12 = 0 /\ rd # 0 /\ rs2 # 0 ->
                        to(rd, regs[rs2])
                  [] quadrant = 2 /\ funct3 = 4 /\ bit12 = 1 /\ rd # 0 /\ rs2 # 0 ->
                        to(rd, wrapping_add(regs[rd], regs[rs2]))
                  [] OTHER -> none
        IN  base.is =>
                /\ int_regs = [regs EXCEPT ![base.rd] = base.v]
                /\ pc = wrapping_add(b.pc, 2)
                /\ csrs = b.csrs
                /\ status = Running

\* C20: a step that fetches a compressed branch or jump at pc behaves as its
\* base equivalent and raises no exception: C.BEQZ / C.BNEZ go to pc + the
\* CB-immediate when rs1' is (is not) zero and to pc + 2 otherwise; C.J and
\* C.JAL go to pc + the CJ-immediate; C.JR and C.JALR go to the value of rs1
\* with bit 0 cleared; C.JAL and C.JALR leave pc + 2 in x1, and no other
\* register changes.  The instruction is read off the parcel at the PC by the
\* encodings of the C extension.
C20_CompressedControlFlow ==
    (last.event = "step" /\ last.fault = "None" /\ last.before.pc \in {0, start_pc}) =>
        LET b == last.before
            regs == b.int_regs
            p == b.mem.buf[0] + 256 * b.mem.buf[1]
            quadrant == p % 4
            funct3 == p \div 8192
            bit12 == (p \div 4096) % 2
            rs1 == (p \div 128) % 32
            rs2 == (p \div 4) % 32
            rs1q == 8 + ((p \div 128) % 8)
            cb == 8 * ((p \div 1024) % 4) + 64 * ((p \div 32) % 4)
                    + 2 * ((p \div 8) % 4) + 32 * ((p \div 4) % 2) - 256 * bit12
            cj == 16 * ((p \div 2048) % 2) + 256 * ((p \div 512) % 4)
                    + 1024 * ((p \div 256) % 2) + 64 * ((p \div 128) % 2)
                    + 128 * ((p \div 64) % 2) + 2 * ((p \div 8) % 8)
                    + 32 * ((p \div 4) % 2) - 2048 * bit12
            next == wrapping_add(b.pc, 2)
            none == [is |-> FALSE, pc |-> 0, link |-> FALSE]
            goes(target, link) == [is |-> TRUE, pc |-> target, link |-> link]
            base ==
                CASE quadrant = 1 /\ funct3 = 6 ->
                        goes(IF regs[rs1q] = 0 THEN wrapping_add(b.pc, cb) ELSE next, FALSE)
                  [] quadrant = 1 /\ funct3 = 7 ->
                        goes(IF regs[rs1q] # 0 THEN wrapping_add(b.pc, cb) ELSE next, FALSE)
                  [] quadrant = 1 /\ funct3 = 5 -> goes(wrapping_add(b.pc, cj), FALSE)
                  [] quadrant = 1 /\ funct3 = 1 -> goes(wrapping_add(b.pc, cj), TRUE)
                  [] quadrant = 2 /\ funct3 = 4 /\ rs1 # 0 /\ rs2 = 0 ->
                        goes(And32(regs[rs1], -2), bit12 = 1)
                  [] OTHER -> none
        IN  base.is =>
                /\ pc = base.pc
                /\ int_regs = IF base.link THEN [regs EXCEPT ![1] = next] ELSE regs
                /\ csrs = b.csrs
                /\ status = Running

\* C21: read_csr and write_csr return Unsupported for every CSR number
\* 0..4095 and change nothing of the hart, and a step that fetches Csrrw,
\* Csrrs, Csrrc, Csrrwi, Csrrsi or Csrrci (opcode SYSTEM with funct3 1, 2, 3,
\* 5, 6, 7) raises IllegalInstruction and leaves rd, every other register
\* and the memory unchanged.
C21_CsrUnsupported ==
    /\ last.event \in {"read_csr", "write_csr"} =>
        /\ ~last.ok
        /\ last.e = "Unsupported"
        /\ Hart = last.before
    /\ (last.event = "step" /\ last.fault = "None" /\ last.before.pc \in {0, start_pc}) =>
        LET b == last.before
            opcode == b.mem.buf[0] % 128
            funct3 == (b.mem.buf[1] \div 16) % 8
        IN  (opcode = 115 /\ funct3 \in {1, 2, 3, 5, 6, 7}) =>
                /\ csrs = [b.csrs EXCEPT !.ucause = ExceptionCause.IllegalInstruction]
                /\ pc = 0
                /\ int_regs = b.int_regs
                /\ float_regs = b.float_regs
                /\ mem = b.mem
                /\ status = Running

\* C21 happens: csrrs x1, ucause, x0 was stepped with x1 = 7 after an earlier
\* step had left ucause = 2; x1 is still 7.
C21_Witness ==
    /\ last.event = "step"
    /\ last.fault = "None"
    /\ last.before.pc = 0
    /\ last.before.mem.buf[0] = 243
    /\ last.before.mem.buf[2] = 32
    /\ last.before.csrs.ucause = 2
    /\ last.before.int_regs[1] = 7
    /\ int_regs[1] = 7
    /\ csrs.ucause = 2

\* C22: write_pc stores any value, aligned or not, and a step taken while the
\* PC is not a multiple of 2 ends in a fetch fault: ucause is one of the
\* Instruction* causes, the PC is the vector base, and no register or memory
\* byte has changed.
C22_MisalignedPcFaults ==
    /\ last.event = "write_any_pc" => pc = last.v
    /\ (last.event = "step" /\ last.before.pc % 2 = 1) =>
        /\ csrs.ucause \in {ExceptionCause.InstructionAddressMisaligned,
                            ExceptionCause.InstructionAccessFault,
                            ExceptionCause.InstructionPageFault}
        /\ pc = 0
        /\ int_regs = last.before.int_regs
        /\ float_regs = last.before.float_regs
        /\ mem = last.before.mem

\* The product of two u32 values on 64 bits, as its high and low words: a in
\* halfwords times b in bytes, each partial product under 2^24, summed in
\* columns of 16 bits with the carries passed upwards.
WideProduct(a, b) ==
    LET a0 == Bits(a, 0, 16)
        a1 == Bits(a, 16, 16)
        q0 == [j \in 0..3 |-> a0 * Bits(b, 8 * j, 8)]
        q1 == [j \in 0..3 |-> a1 * Bits(b, 8 * j, 8)]
        c0 == q0[0] + (q0[1] % 256) * 256
        c1 == q1[0] + (q0[1] \div 256) + (q1[1] % 256) * 256 + q0[2] + (q0[3] % 256) * 256
        c2 == (q1[1] \div 256) + q1[2] + (q0[3] \div 256) + (q1[3] % 256) * 256
        c3 == q1[3] \div 256
        k1 == c1 + (c0 \div 65536)
        k2 == c2 + (k1 \div 65536)
        k3 == c3 + (k2 \div 65536)
    IN  [hi |-> W(k3 % 65536, k2 % 65536), lo |-> W(k1 % 65536, c0 % 65536)]

\* C23: a step that executes Mul, Mulh, Mulhsu or Mulhu (opcode OP, funct7 1,
\* funct3 0..3) writes to rd the low word of rs1 * rs2, or the high word of
\* the 64-bit product with both operands signed, rs1 signed and rs2
\* unsigned, or both unsigned; the high word of a product with a signed
\* negative operand is the unsigned high word less the other operand.
C23_MulFamily ==
    (last.event = "step" /\ last.fault = "None" /\ last.before.pc \in {0, start_pc}) =>
        LET b == last.before
            buf == b.mem.buf
            opcode == buf[0] % 128
            rd == (buf[0] \div 128) + 2 * (buf[1] % 16)
            funct3 == (buf[1] \div 16) % 8
            rs1 == (buf[1] \div 128) + 2 * (buf[2] % 16)
            rs2 == (buf[2] \div 16) + 16 * (buf[3] % 2)
            funct7 == buf[3] \div 2
            x == b.int_regs[rs1]
            y == b.int_regs[rs2]
            p == WideProduct(x, y)
            less_y == IF x < 0 THEN wrapping_sub(p.hi, y) ELSE p.hi
            less_x == IF y < 0 THEN wrapping_sub(less_y, x) ELSE less_y
            want == CASE funct3 = 0 -> p.lo
                      [] funct3 = 1 -> less_x
                      [] funct3 = 2 -> less_y
                      [] funct3 = 3 -> p.hi
        IN  (opcode = 51 /\ funct7 = 1 /\ funct3 \in 0..3) =>
                /\ int_regs = [i \in DOMAIN b.int_regs |->
                                  IF i = rd /\ rd # 0 THEN want ELSE b.int_regs[i]]
                /\ pc = wrapping_add(b.pc, 4)
                /\ csrs = b.csrs
                /\ mem = b.mem
                /\ status = Running

\* C23 happens: mulhsu x3, x1, x2 was stepped with x1 = -1 and
\* x2 = 0x80000000; x3 is 0xffffffff, the high word of -(2^31).
C23_Witness ==
    /\ last.event = "step"
    /\ last.fault = "None"
    /\ last.before.pc = start_pc
    /\ last.before.mem.buf[1] = 161
    /\ last.before.mem.buf[3] = 2
    /\ last.before.int_regs[1] = -1
    /\ last.before.int_regs[2] = MinI32
    /\ int_regs[3] = -1

\* C24: on a hart whose read_csr and write_csr succeed for the CSR, a step
\* that executes Csrrw, Csrrs, Csrrc, Csrrwi, Csrrsi or Csrrci places the old
\* CSR value in rd and writes the CSR with the source, old OR source, or old
\* AND NOT source, the source being rs1 or the 5-bit immediate; Csrrs with
\* rs1 = x0 reads the CSR into rd and writes no CSR.
C24_CsrReadModifyWrite ==
    (/\ last.event = "step"
     /\ last.fault = "None"
     /\ last.before.pc = 0
     /\ "csr_file" \in DOMAIN last.before.csrs) =>
        LET b == last.before
            buf == b.mem.buf
            opcode == buf[0] % 128
            rd == (buf[0] \div 128) + 2 * (buf[1] % 16)
            funct3 == (buf[1] \div 16) % 8
            rs1 == (buf[1] \div 128) + 2 * (buf[2] % 16)
            csr == (buf[2] \div 16) + 16 * buf[3]
            old == b.csrs.csr_file[64]
            source == IF funct3 >= 4 THEN rs1 ELSE b.int_regs[rs1]
            new_value == CASE funct3 % 4 = 1 -> source
                           [] funct3 % 4 = 2 -> Or32(old, source)
                           [] funct3 % 4 = 3 -> And32(old, Xor32(source, -1))
        IN  (opcode = 115 /\ funct3 \in {1, 2, 3, 5, 6, 7} /\ csr = 64) =>
                /\ int_regs = [i \in DOMAIN b.int_regs |->
                                  IF i = rd /\ rd # 0 THEN old ELSE b.int_regs[i]]
                /\ csrs = IF funct3 = 2 /\ rs1 = 0 THEN b.csrs
                          ELSE [b.csrs EXCEPT !.csr_file[64] = new_value]
                /\ pc = 4
                /\ status = Running

\* C25: Registers::write_int on register 0 leaves the whole storage, slot 0
\* included, as it was, and read_int of register 0 returns zero whatever has
\* been written.
C25_ZeroRegisterStorage ==
    /\ (last.event = "write_int" /\ last.reg = 0) => int_regs = last.before
    /\ (last.event = "read_int" /\ last.reg = 0) => last.v = 0

\* C26: the extractors rebuild the immediates of a raw word: I is bits 31:20
\* sign-extended; S is bits 31:25 followed by bits 11:7, sign-extended; B is
\* the 13-bit value {bit 31, bit 7, bits 30:25, bits 11:8, 0} sign-extended
\* and even; U is bits 31:12 in place over twelve zero bits; J is the 21-bit
\* value {bit 31, bits 19:12, bit 20, bits 30:21, 0} sign-extended and even.
C26_Immediates ==
    last.event = "immediates" =>
        LET hi == Hi16(last.raw)
            lo == Lo16(last.raw)
            bit31 == hi \div 32768
            i_field == hi \div 16
            s_field == (hi \div 512) * 32 + ((lo \div 128) % 32)
            b_field == bit31 * 4096 + ((lo \div 128) % 2) * 2048
                       + ((hi \div 512) % 64) * 32 + ((lo \div 256) % 16) * 2
            j_field == bit31 * 1048576 + ((hi % 16) * 16 + (lo \div 4096)) * 4096
                       + ((hi \div 16) % 2) * 2048 + ((hi \div 32) % 1024) * 2
        IN  /\ last.imm12 = i_field - bit31 * 4096
            /\ last.simm12 = s_field - bit31 * 4096
            /\ last.sbimm12 = b_field - bit31 * 8192
            /\ last.sbimm12 % 2 = 0
            /\ last.imm20 = W(hi, (lo \div 4096) * 4096)
            /\ last.jimm20 = j_field - bit31 * 2097152
            /\ last.jimm20 % 2 = 0

\* C26 happens: the immediates of 0xfe000f80 (bits 31:25 and 11:7 set) were
\* extracted: S is -1, B is -2, I is -32, U is 0xfe000000 and J is -1046560.
C26_Witness ==
    /\ last.event = "immediates"
    /\ last.raw = W(65024, 3968)
    /\ last.simm12 = -1
    /\ last.sbimm12 = -2
    /\ last.imm12 = -32
    /\ last.imm20 = W(65024, 0)
    /\ last.jimm20 = -1046560

\* C27: step_rv32 returns an ExecStatus and never panics, whatever word is
\* fetched and whatever the registers hold: the register selectors of the
\* decoded operation are at most 31, its CSR number at most 4095 and its
\* shift amount at most 31.
C27_StepTotal ==
    last.event = "step" =>
        /\ status.tag \in {"Running", "WaitingForInterrupt", "EnvironmentCall",
                           "EnvironmentBreak"}
        /\ last.fault = "None" =>
            LET op == last.inst.op
            IN  /\ \A f \in DOMAIN op \cap {"rd", "rs1", "rs2", "rs3", "rs1rd", "frd",
                                          "frs1", "frs2", "frs3"} : op[f] \in 0..31
                /\ "csr" \in DOMAIN op => op.csr \in 0..4095
                /\ "shamt" \in DOMAIN op => op.shamt \in 0..31

\* C27 happens: div x1, x1, x2 was stepped with x1 = 0x80000000 and x2 = -1,
\* and returned Running with x1 = 0x80000000.
C27_Witness ==
    /\ last.event = "step"
    /\ last.fault = "None"
    /\ last.inst.op.variant = "Div"
    /\ last.before.int_regs[1] = MinI32
    /\ last.before.int_regs[2] = -1
    /\ int_regs[1] = MinI32
    /\ status = Running

\* C28: utvec is 0 in every state that steps, exceptions and resets reach, so
\* every exception entry, raised by a caller or by a step on a CSR
\* instruction, sets the PC to 0.
C28_VectorBaseZero ==
    /\ csrs.utvec = 0
    /\ last.event = "exception" => pc = 0
    /\ (/\ last.event = "step"
        /\ last.fault = "None"
        /\ last.before.pc \in {0, start_pc}
        /\ last.before.mem.buf[0] % 128 = 115
        /\ (last.before.mem.buf[1] \div 16) % 8 # 0) => pc = 0

\* C28 happens: csrrwi x0, utvec, 31 was stepped at 0x80000000 after an
\* exception had set ucause to 7; utvec is still 0 and the step trapped to 0.
C28_Witness ==
    /\ last.event = "step"
    /\ last.fault = "None"
    /\ last.before.pc = start_pc
    /\ last.before.mem.buf[0] = 115
    /\ last.before.mem.buf[1] = 208
    /\ last.before.mem.buf[2] = 95
    /\ last.before.csrs.ucause = 7
    /\ csrs.utvec = 0
    /\ csrs.ucause = 2
    /\ pc = 0

\* C29: a load whose bus read faults leaves rd and every other register
\* unchanged, and a store whose bus write faults, on a ROM or in the address
\* callback, leaves every byte of memory unchanged; in both cases only the
\* PC and ucause differ from the state before the step.
C29_FaultLeavesData ==
    last.event = "step" /\ last.fault = "None" =>
        LET b == last.before
            variant == last.inst.op.variant
            is_load == variant \in {"Lb", "Lbu", "Lh", "Lhu", "Lw"}
            is_store == variant \in {"Sb", "Sh", "Sw"}
            addr == wrapping_add(b.int_regs[last.inst.op.rs1], last.inst.op.simm)
            translated == translate_address(b.mem.callback, addr)
            faults == ~translated.ok \/ (is_store /\ ~b.mem.writable)
        IN  (is_load \/ is_store) /\ faults =>
                /\ int_regs = b.int_regs
                /\ float_regs = b.float_regs
                /\ mem = b.mem
                /\ \A f \in DOMAIN csrs : f # "ucause" => csrs[f] = b.csrs[f]
                /\ status = Running

\* C29 happens: lw x2, 8(x1) faulted in the address callback with x2 = 7 and
\* x2 is still 7; ucause is LoadAccessFault.
C29_Witness ==
    /\ last.event = "step"
    /\ last.fault = "None"
    /\ last.inst.op.variant = "Lw"
    /\ mem.callback.fault = "AccessFault"
    /\ last.before.int_regs[2] = 7
    /\ int_regs[2] = 7
    /\ csrs.ucause = 5
    /\ pc = 0

\* C30: a step that executes Jalr (opcode 0x67, funct3 0) with rd and rs1 the
\* same register jumps to (the value rs1 held before the step + the
\* I-immediate) with bit 0 cleared and leaves pc + 4 in the register; with
\* rd = x0 the link value is discarded and no register changes.
C30_JalrSameRegister ==
    (last.event = "step" /\ last.fault = "None" /\ last.before.pc \in {0, start_pc}) =>
        LET b == last.before
            buf == b.mem.buf
            opcode == buf[0] % 128
            rd == (buf[0] \div 128) + 2 * (buf[1] % 16)
            funct3 == (buf[1] \div 16) % 8
            rs1 == (buf[1] \div 128) + 2 * (buf[2] % 16)
            field == (buf[2] \div 16) + 16 * buf[3]
            imm == IF field >= 2048 THEN field - 4096 ELSE field
            target == wrapping_add(b.int_regs[rs1], imm)
        IN  (opcode = 103 /\ funct3 = 0 /\ (rd = rs1 \/ rd = 0)) =>
                /\ pc = target - (target % 2)
                /\ int_regs = [i \in DOMAIN b.int_regs |->
                                  IF i = rd /\ rd # 0 THEN wrapping_add(b.pc, 4)
                                  ELSE b.int_regs[i]]
                /\ int_regs[0] = 0
                /\ status = Running

\* C30 happens: jalr x1, -1(x1) fetched at 0 with x1 = 7 jumped to
\* (7 - 1) & ~1 = 6, not to (4 - 1) & ~1 = 2, and x1 holds 4.
C30_Witness ==
    /\ last.event = "step"
    /\ last.fault = "None"
    /\ last.before.pc = 0
    /\ last.before.mem.buf[0] = 231
    /\ last.before.mem.buf[1] = 128
    /\ last.before.int_regs[1] = 7
    /\ pc = 6
    /\ int_regs[1] = 4

====
